---------------------------- MODULE Spec2Model ----------------------------
(***************************************************************************)
(* PhilCard: a link-in-bio server (server.js) that keeps links.json,       *)
(* config.json and an uploads directory, and guards its admin endpoints    *)
(* with a bearer token that is base64(password + 'philcard').              *)
(*                                                                         *)
(* Conventions.  A JavaScript string that the code inspects character by   *)
(* character (passwords, tokens) is a sequence of character codes; a       *)
(* base64 text is a sequence of alphabet indices 0..63 with 64 for '='.    *)
(* A JavaScript string the code only tests for truthiness or copies        *)
(* (titles, urls, file names) is a TLA+ string, with the reserved string   *)
(* undefined for an absent key.  A decimal id is a record [num, v]: the    *)
(* number v when num, the string of v's digits otherwise.                  *)
(***************************************************************************)
EXTENDS Integers, Sequences, FiniteSets, TLC

VARIABLES links, config, configOk, uploads, now, issued, req, res, pre, client,
          flight, acked, limit, deploy

vars == <<links, config, configOk, uploads, now, issued, req, res, pre, client,
          flight, acked, limit, deploy>>

\* what a handler that runs from its request to its response without another
\* in between leaves alone: the browser; flight, the handlers that wait for
\* fs.writeFile with what they read; acked, the changes answered with success;
\* limit, the stores of the rate limiters. Where limit stays as it is the
\* requests are those the limiters let through
others == <<client, flight, acked, limit, deploy>>

stores == <<links, config, configOk, uploads>>

-----------------------------------------------------------------------------
(* Bounds of the model *)

\* links.json holds at most MaxLinks links (guard of the adding requests)
MaxLinks == 2

\* Date.now() takes the values 1..MaxClock
MaxClock == 2

\* multer's random suffix takes the values 1..MaxRandom
MaxRandom == 1

\* links.json holds at most MaxAdminLinks links where every admin endpoint
\* is exercised
MaxAdminLinks == 1

\* at most MaxFlight handlers wait for fs.writeFile at a time
MaxFlight == 2

\* at most MaxReorders reorder requests of a page are unanswered at a time
MaxReorders == 1

\* where the limiters count, Date.now() takes the values 1..MaxLimitClock
MaxLimitClock == 4

\* a limiter sees at most MaxBlocked requests beyond its max in a window
MaxBlocked == 1

\* the commits of origin/main are numbered 1..MaxVersion
MaxVersion == 3

-----------------------------------------------------------------------------
(* JavaScript values *)

undefined == "undefined"

\* a test that takes '' for a value
Falsy_OnlyUndefined(v) == v = undefined

\* !v of a string-or-undefined value
Falsy(v) == v = undefined \/ v = ""

\* a spread that takes whatever the body holds
OrElse_Given(v, d) == v

\* v || d
OrElse(v, d) == IF Falsy(v) THEN d ELSE v

\* a typed value of a JSON body: {type, val}; val is the string's character
\* codes, or the one-element sequence of a number
JsUndefined == [type |-> "undefined", val |-> <<>>]

JsString(s) == [type |-> "string", val |-> s]

JsNumber(n) == [type |-> "number", val |-> <<n>>]

\* a test that takes '' and 0 for values
FalsyValue_OnlyUndefined(v) == v.type = "undefined"

\* !v of a typed value
FalsyValue(v) ==
    \/ v.type = "undefined"
    \/ v.type = "string" /\ v.val = <<>>
    \/ v.type = "number" /\ v.val = <<0>>

-----------------------------------------------------------------------------
(* Strings, UTF-8 and base64 as Buffer does them *)

\* 'philcard'
Marker == <<112, 104, 105, 108, 99, 97, 114, 100>>

\* the index of the first occurrence of m in s, 0 when there is none
IndexOf(s, m) ==
    LET hits == {i \in 1..(Len(s) - Len(m) + 1) : SubSeq(s, i, i + Len(m) - 1) = m}
    IN  IF hits = {} THEN 0 ELSE CHOOSE i \in hits : \A j \in hits : i <= j

\* s.split(m)[0]
SplitFirst(s, m) ==
    LET i == IndexOf(s, m)
    IN  IF i = 0 THEN s ELSE SubSeq(s, 1, i - 1)

\* Buffer.from(str): the UTF-8 bytes of a string of code points below 2048
RECURSIVE Utf8Encode(_)
Utf8Encode(s) ==
    IF s = <<>> THEN <<>>
    ELSE LET c == Head(s)
         IN  (IF c < 128 THEN <<c>> ELSE <<192 + (c \div 64), 128 + (c % 64)>>)
             \o Utf8Encode(Tail(s))

\* buf.toString('utf8'): one- and two-byte sequences; any other byte decodes
\* to U+FFFD
RECURSIVE Utf8Decode(_)
Utf8Decode(b) ==
    IF b = <<>> THEN <<>>
    ELSE IF b[1] < 128 THEN <<b[1]>> \o Utf8Decode(Tail(b))
    ELSE IF /\ b[1] >= 194 /\ b[1] < 224 /\ Len(b) >= 2
            /\ b[2] >= 128 /\ b[2] < 192
         THEN <<(b[1] - 192) * 64 + (b[2] - 128)>> \o Utf8Decode(SubSeq(b, 3, Len(b)))
    ELSE <<65533>> \o Utf8Decode(Tail(b))

\* buf.toString('base64')
RECURSIVE Base64Encode(_)
Base64Encode(b) ==
    IF b = <<>> THEN <<>>
    ELSE IF Len(b) = 1 THEN <<b[1] \div 4, (b[1] % 4) * 16, 64, 64>>
    ELSE IF Len(b) = 2
         THEN <<b[1] \div 4, (b[1] % 4) * 16 + (b[2] \div 16), (b[2] % 16) * 4, 64>>
    ELSE <<b[1] \div 4, (b[1] % 4) * 16 + (b[2] \div 16),
           (b[2] % 16) * 4 + (b[3] \div 64), b[3] % 64>>
         \o Base64Encode(SubSeq(b, 4, Len(b)))

\* the bytes of the sextets before the first '='; a trailing group of two
\* sextets gives one byte, of three gives two, of one gives none
RECURSIVE Base64Sextets(_)
Base64Sextets(t) ==
    IF Len(t) < 2 THEN <<>>
    ELSE IF Len(t) = 2 THEN <<t[1] * 4 + (t[2] \div 16)>>
    ELSE IF Len(t) = 3
         THEN <<t[1] * 4 + (t[2] \div 16), (t[2] % 16) * 16 + (t[3] \div 4)>>
    ELSE <<t[1] * 4 + (t[2] \div 16), (t[2] % 16) * 16 + (t[3] \div 4),
           (t[3] % 4) * 64 + t[4]>>
         \o Base64Sextets(SubSeq(t, 5, Len(t)))

\* Buffer.from(token, 'base64')
Base64Decode(t) ==
    LET pad == IndexOf(t, <<64>>)
    IN  Base64Sextets(IF pad = 0 THEN t ELSE SubSeq(t, 1, pad - 1))

-----------------------------------------------------------------------------
(* bcryptjs *)

\* bcrypt.hashSync(password, 10): a 60-character hash of the password
hashSync(password) == [type |-> "string", len |-> 60, pw |-> password]

\* the hash initializeData writes: '$2a$10$YourHashedPasswordHere'
DefaultHash == [type |-> "string", len |-> 27, pw |-> <<>>]

\* a config without adminPasswordHash
NoHash == [type |-> "undefined", len |-> 0, pw |-> <<>>]

\* !config.adminPasswordHash
FalsyHash(h) == h.type = "undefined" \/ h.len = 0

\* bcrypt.compare(s, hash): "throw" on a non-string argument, "false" on a
\* hash that is not 60 characters long, else whether the hash is s's
bcryptCompare(s, hash) ==
    IF s.type # "string" \/ hash.type # "string" THEN "throw"
    ELSE IF hash.len # 60 THEN "false"
    ELSE IF s.val = hash.pw THEN "true" ELSE "false"


-----------------------------------------------------------------------------
(* Requests and responses *)

\* the Authorization header: none, another scheme, or 'Bearer ' + token
NoHeader == [scheme |-> "none", token |-> <<>>]

BasicHeader == [scheme |-> "Basic", token |-> <<>>]

Bearer(token) == [scheme |-> "Bearer", token |-> token]

\* res.status(status).json({ error })
Error(status, error) == [status |-> status, body |-> [error |-> error]]

\* res.status(status).json(body)
Json(status, body) == [status |-> status, body |-> body]

\* the request and its response, and the files and the clock as they were
\* when it arrived
Record(q, r) ==
    /\ req' = q
    /\ res' = r
    /\ pre' = [links |-> links, config |-> config, configOk |-> configOk,
               uploads |-> uploads, now |-> now]

\* a response that ends the handler before anything is written
Rejected(q, r) ==
    /\ Record(q, r)
    /\ UNCHANGED <<stores, now, issued>>

-----------------------------------------------------------------------------
(* Files *)

\* the profile initializeData and setup-password.js write
DefaultProfile ==
    [name |-> "Philuu", description |-> "Developer, creator, and tech enthusiast",
     avatar |-> "PU", avatarUrl |-> [type |-> "undefined", dir |-> "", name |-> <<>>]]

\* an absent url, and '/uploads/' + filename
NoUrl == [type |-> "undefined", dir |-> "", name |-> <<>>]

UploadUrl(filename) == [type |-> "string", dir |-> "uploads", name |-> filename]

\* url && url.startsWith('/uploads/')
InUploads(url) == url.type = "string" /\ url.dir = "uploads"

\* a config without settings
NoSettings == [defined |-> FALSE, backgroundImageUrl |-> NoUrl, theme |-> undefined]

\* loadLinks(): the array of links.json
loadLinks == links

\* loadConfig(): the object of config.json, null when it cannot be read
loadConfig == [null |-> ~configOk, value |-> config]

-----------------------------------------------------------------------------
(* Authentication *)

\* 'secret'
PwPlain == <<115, 101, 99, 114, 101, 116>>

\* 'myphilcard', a password that contains 'philcard'
PwMarked == <<109, 121>> \o Marker

\* 'secretphilcard', a password that ends with 'philcard'
PwSuffixed == PwPlain \o Marker

\* 'guess'
PwWrong == <<103, 117, 101, 115, 115>>

\* 'philuu2025', the password README and SETUP.md give as the default
PwDefault == <<112, 104, 105, 108, 117, 117, 50, 48, 50, 53>>

\* the passwords an admin sets
AdminPasswords == {PwPlain, PwMarked}

\* the password a token carries: decoded.split('philcard')[0]
TokenPassword(token) == SplitFirst(Utf8Decode(Base64Decode(token)), Marker)

\* the token POST /api/auth makes of a password
MakeToken(password) == Base64Encode(Utf8Encode(password \o Marker))

\* the tokens requests carry here: those of the passwords above, and the
\* first seven characters of one
Tokens ==
    {MakeToken(p) : p \in AdminPasswords \cup {PwWrong, PwSuffixed}}
        \cup {SubSeq(MakeToken(PwPlain), 1, 7)}

\* TokenPassword of each of them
DecodedPassword == [token \in Tokens |-> TokenPassword(token)]

\* an authenticateAdmin that never looks at isValid
authenticateAdmin_AnyBearer(authHeader) ==
    IF authHeader.scheme # "Bearer"
    THEN Error(401, "Authentication required")
    ELSE IF loadConfig.null \/ FalsyHash(loadConfig.value.adminPasswordHash)
         THEN Error(500, "Server configuration error")
         ELSE Error(0, "")

\* authenticateAdmin: status 0 stands for next()
authenticateAdmin(authHeader) ==
    IF authHeader.scheme # "Bearer"
    THEN Error(401, "Authentication required")
    ELSE LET password == DecodedPassword[authHeader.token]
             cfg == loadConfig
         IN  IF cfg.null \/ FalsyHash(cfg.value.adminPasswordHash)
             THEN Error(500, "Server configuration error")
             ELSE IF bcryptCompare(JsString(password), cfg.value.adminPasswordHash) = "true"
                  THEN Error(0, "")
                  ELSE Error(401, "Invalid authentication")

\* expiresIn: 24 * 60 * 60 * 1000 ms, in steps of the clock of 12 hours
ExpiresIn == 2

\* app.post('/api/auth')
PostAuth(password) ==
    LET q == [op |-> "POST /api/auth", password |-> password]
        cfg == loadConfig
    IN  IF FalsyValue(password)
        THEN Rejected(q, Error(400, "Password required"))
        ELSE IF cfg.null \/ FalsyHash(cfg.value.adminPasswordHash)
        THEN Rejected(q, Error(500, "Server configuration error"))
        ELSE LET isValid == bcryptCompare(password, cfg.value.adminPasswordHash)
             IN  IF isValid = "throw"
                 THEN Rejected(q, Error(500, "Authentication failed"))
                 ELSE IF isValid = "false"
                 THEN Rejected(q, Error(401, "Invalid password"))
                 ELSE LET token == MakeToken(password.val)
                      IN  /\ Record(q, Json(200, [success |-> TRUE, token |-> token,
                                                  expiresIn |-> ExpiresIn]))
                          /\ issued' = issued \cup
                                {[token |-> token, hash |-> cfg.value.adminPasswordHash]}
                          /\ UNCHANGED <<stores, now>>

-----------------------------------------------------------------------------
(* Public endpoints *)

\* app.get('/api/links')
GetLinks ==
    /\ Record([op |-> "GET /api/links"], Json(200, loadLinks))
    /\ UNCHANGED <<stores, now, issued>>

\* a handler that answers the config as it is stored
PublicConfig_Whole(cfg) == cfg

\* the body app.get('/api/config') answers for a readable config
PublicConfig(cfg) == [profile |-> cfg.profile]

\* app.get('/api/config')
GetConfig ==
    LET q == [op |-> "GET /api/config"]
        cfg == loadConfig
    IN  IF cfg.null
        THEN Rejected(q, Error(500, "Failed to load config"))
        ELSE Rejected(q, Json(200, PublicConfig(cfg.value)))

-----------------------------------------------------------------------------
(* Links *)

\* Date.now().toString(): the string of the clock's digits
StringId(n) == [num |-> FALSE, v |-> n]

\* a JSON number used as an id
NumberId(n) == [num |-> TRUE, v |-> n]

\* a search that settles for the first link whatever its id
findIndex_Any(ls, id) == IF ls = <<>> THEN 0 ELSE 1

\* a search that ends on the last match
findIndex_Last(ls, id) ==
    LET hits == {i \in 1..Len(ls) : ls[i].id = id}
    IN  IF hits = {} THEN 0 ELSE CHOOSE i \in hits : \A j \in hits : i >= j

\* links.findIndex(link => link.id === id), 0 for -1
findIndex(ls, id) ==
    LET hits == {i \in 1..Len(ls) : ls[i].id = id}
    IN  IF hits = {} THEN 0 ELSE CHOOSE i \in hits : \A j \in hits : i <= j

\* links.splice(i, 1): the array without its i-th element
splice(ls, i) == SubSeq(ls, 1, i - 1) \o SubSeq(ls, i + 1, Len(ls))

\* a link made without the || defaults
NewLink_NoDefaults(body) ==
    [id |-> [num |-> FALSE, v |-> now], title |-> body.title, url |-> body.url,
     subtitle |-> body.subtitle, iconName |-> body.iconName, iconType |-> body.iconType,
     createdAt |-> now, updatedAt |-> 0]

\* the link app.post('/api/links') makes of a body; updatedAt 0 is an absent key
NewLink(body) ==
    [id |-> StringId(now), title |-> body.title, url |-> body.url,
     subtitle |-> OrElse(body.subtitle, ""),
     iconName |-> OrElse(body.iconName, "link"),
     iconType |-> OrElse(body.iconType, "simple"),
     createdAt |-> now, updatedAt |-> 0]

\* an update that builds the link anew and stamps createdAt as well
UpdatedLink_Rebuilt(link, body) ==
    [id |-> link.id, title |-> body.title, url |-> body.url,
     subtitle |-> OrElse(body.subtitle, ""),
     iconName |-> OrElse(body.iconName, "link"),
     iconType |-> OrElse(body.iconType, "simple"),
     createdAt |-> now, updatedAt |-> now]

\* { ...link, title, url, subtitle, iconName, iconType, updatedAt }
UpdatedLink(link, body) ==
    [link EXCEPT !.title = body.title, !.url = body.url,
                 !.subtitle = OrElse(body.subtitle, ""),
                 !.iconName = OrElse(body.iconName, "link"),
                 !.iconType = OrElse(body.iconType, "simple"),
                 !.updatedAt = now]

\* saveLinks(ls) and the response r when the write succeeds, the 500 when
\* fs.writeFile fails and links.json stays as it was
SaveLinks(q, ls, r, failure) ==
    \E saved \in BOOLEAN :
        IF saved
        THEN /\ links' = ls
             /\ Record(q, r)
             /\ UNCHANGED <<config, configOk, uploads, now, issued>>
        ELSE Rejected(q, Error(500, failure))

\* app.post('/api/links')
PostLinks(authHeader, body) ==
    LET q == [op |-> "POST /api/links", auth |-> authHeader, body |-> body]
        auth == authenticateAdmin(authHeader)
    IN  IF auth.status # 0 THEN Rejected(q, auth)
        ELSE IF Falsy(body.title) \/ Falsy(body.url)
        THEN Rejected(q, Error(400, "Title and URL are required"))
        ELSE LET newLink == NewLink(body)
             IN  SaveLinks(q, Append(loadLinks, newLink), Json(201, newLink),
                           "Failed to save link")

\* app.put('/api/links/:id')
PutLink(authHeader, id, body) ==
    LET q == [op |-> "PUT /api/links/:id", auth |-> authHeader, id |-> id, body |-> body]
        auth == authenticateAdmin(authHeader)
    IN  IF auth.status # 0 THEN Rejected(q, auth)
        ELSE IF Falsy(body.title) \/ Falsy(body.url)
        THEN Rejected(q, Error(400, "Title and URL are required"))
        ELSE LET ls == loadLinks
                 linkIndex == findIndex(ls, id)
             IN  IF linkIndex = 0
                 THEN Rejected(q, Error(404, "Link not found"))
                 ELSE LET updated == UpdatedLink(ls[linkIndex], body)
                      IN  SaveLinks(q, [ls EXCEPT ![linkIndex] = updated],
                                    Json(200, updated), "Failed to update link")

\* app.delete('/api/links/:id')
DeleteLink(authHeader, id) ==
    LET q == [op |-> "DELETE /api/links/:id", auth |-> authHeader, id |-> id]
        auth == authenticateAdmin(authHeader)
    IN  IF auth.status # 0 THEN Rejected(q, auth)
        ELSE LET ls == loadLinks
                 linkIndex == findIndex(ls, id)
             IN  IF linkIndex = 0
                 THEN Rejected(q, Error(404, "Link not found"))
                 ELSE SaveLinks(q, splice(ls, linkIndex),
                                Json(200, [success |-> TRUE, deletedLink |-> ls[linkIndex]]),
                                "Failed to delete link")

\* a bulk handler that adds the supplied links behind the stored ones
BulkLinks_Append(authHeader, body) ==
    LET q == [op |-> "POST /api/links/bulk", auth |-> authHeader, body |-> body]
        auth == authenticateAdmin(authHeader)
    IN  IF auth.status # 0 THEN Rejected(q, auth)
        ELSE IF body.operation = "replace" /\ body.links.isArray
        THEN SaveLinks(q, loadLinks \o body.links.items,
                       Json(200, [success |-> TRUE, count |-> Len(body.links.items)]),
                       "Failed to save links")
        ELSE Rejected(q, Error(400, "Invalid bulk operation"))

\* app.post('/api/links/bulk'); body.links is {isArray, items}
BulkLinks(authHeader, body) ==
    LET q == [op |-> "POST /api/links/bulk", auth |-> authHeader, body |-> body]
        auth == authenticateAdmin(authHeader)
    IN  IF auth.status # 0 THEN Rejected(q, auth)
        ELSE IF body.operation = "replace" /\ body.links.isArray
        THEN SaveLinks(q, body.links.items,
                       Json(200, [success |-> TRUE, count |-> Len(body.links.items)]),
                       "Failed to save links")
        ELSE Rejected(q, Error(400, "Invalid bulk operation"))

-----------------------------------------------------------------------------
(* Profile, settings and uploads *)

\* saveConfig(cfg), what the handler did to uploads before it, and the
\* response r when the write succeeds; the 500 when fs.writeFile fails and
\* config.json stays as it was
SaveConfig(q, cfg, files, r, failure) ==
    \E saved \in BOOLEAN :
        /\ uploads' = files
        /\ UNCHANGED <<links, configOk, now, issued>>
        /\ IF saved
           THEN config' = cfg /\ Record(q, r)
           ELSE config' = config /\ Record(q, Error(500, failure))

\* app.put('/api/profile'): a falsy name, description or avatar is left out
PutProfile(authHeader, body) ==
    LET q == [op |-> "PUT /api/profile", auth |-> authHeader, body |-> body]
        auth == authenticateAdmin(authHeader)
        cfg == loadConfig
    IN  IF auth.status # 0 THEN Rejected(q, auth)
        ELSE IF cfg.null THEN Rejected(q, Error(500, "Failed to load config"))
        ELSE LET profile ==
                     [cfg.value.profile EXCEPT
                        !.name = OrElse(body.name, @),
                        !.description = OrElse(body.description, @),
                        !.avatar = OrElse(body.avatar, @)]
             IN  SaveConfig(q, [cfg.value EXCEPT !.profile = profile], uploads,
                            Json(200, [success |-> TRUE, profile |-> profile]),
                            "Failed to save profile")

\* multer's filename: 'avatar-' + Date.now() + '-' + random + ext
Filename(file) == <<now, file.random, file.ext>>

\* a filter that lets every file through
fileFilter_Any(file) == TRUE

\* multer's fileFilter: file.mimetype.startsWith('image/')
fileFilter(file) == file.mimetype.type = "image"

\* app.post('/api/profile/avatar'): upload.single('avatar') has stored the
\* file in uploads when the handler starts
PostAvatar(authHeader, file) ==
    LET q == [op |-> "POST /api/profile/avatar", auth |-> authHeader, file |-> file]
        auth == authenticateAdmin(authHeader)
        cfg == loadConfig
    IN  IF auth.status # 0 THEN Rejected(q, auth)
        ELSE IF ~file.present THEN Rejected(q, Error(400, "No file uploaded"))
        ELSE IF ~fileFilter(file) THEN Rejected(q, Error(500, "Internal server error"))
        ELSE IF cfg.null
        THEN /\ uploads' = uploads \cup {Filename(file)}
             /\ Record(q, Error(500, "Failed to load config"))
             /\ UNCHANGED <<links, config, configOk, now, issued>>
        ELSE LET old == cfg.value.profile.avatarUrl
                 stored == uploads \cup {Filename(file)}
                 kept == IF InUploads(old) THEN stored \ {old.name} ELSE stored
                 profile == [cfg.value.profile EXCEPT !.avatarUrl = UploadUrl(Filename(file))]
             IN  SaveConfig(q, [cfg.value EXCEPT !.profile = profile], kept,
                            Json(200, [success |-> TRUE, avatarUrl |-> profile.avatarUrl,
                                       profile |-> profile]),
                            "Failed to save avatar")

\* { ...config.settings, ...settings }: patch.keys are the keys the body gives
MergeSettings(old, patch) ==
    [defined |-> TRUE,
     backgroundImageUrl |-> IF patch.defined /\ "backgroundImageUrl" \in patch.keys
                            THEN patch.backgroundImageUrl ELSE old.backgroundImageUrl,
     theme |-> IF patch.defined /\ "theme" \in patch.keys
               THEN patch.theme ELSE old.theme]

\* app.put('/api/settings')
PutSettings(authHeader, body) ==
    LET q == [op |-> "PUT /api/settings", auth |-> authHeader, body |-> body]
        auth == authenticateAdmin(authHeader)
        cfg == loadConfig
    IN  IF auth.status # 0 THEN Rejected(q, auth)
        ELSE IF cfg.null THEN Rejected(q, Error(500, "Failed to load config"))
        ELSE LET settings == MergeSettings(cfg.value.settings, body.settings)
             IN  SaveConfig(q, [cfg.value EXCEPT !.settings = settings], uploads,
                            Json(200, [success |-> TRUE, settings |-> settings]),
                            "Failed to save settings")

\* app.post('/api/settings/background')
PostBackground(authHeader, file) ==
    LET q == [op |-> "POST /api/settings/background", auth |-> authHeader, file |-> file]
        auth == authenticateAdmin(authHeader)
        cfg == loadConfig
    IN  IF auth.status # 0 THEN Rejected(q, auth)
        ELSE IF ~file.present THEN Rejected(q, Error(400, "No file uploaded"))
        ELSE IF ~fileFilter(file) THEN Rejected(q, Error(500, "Internal server error"))
        ELSE IF cfg.null
        THEN /\ uploads' = uploads \cup {Filename(file)}
             /\ Record(q, Error(500, "Failed to load config"))
             /\ UNCHANGED <<links, config, configOk, now, issued>>
        ELSE LET old == cfg.value.settings.backgroundImageUrl
                 stored == uploads \cup {Filename(file)}
                 kept == IF cfg.value.settings.defined /\ InUploads(old)
                         THEN stored \ {old.name} ELSE stored
                 settings == [cfg.value.settings EXCEPT
                                !.defined = TRUE,
                                !.backgroundImageUrl = UploadUrl(Filename(file))]
             IN  SaveConfig(q, [cfg.value EXCEPT !.settings = settings], kept,
                            Json(200, [success |-> TRUE,
                                       imageUrl |-> settings.backgroundImageUrl]),
                            "Failed to save background image")

-----------------------------------------------------------------------------
(* setup-password.js and the environment *)

\* setup-password.js loadConfig(): the default profile when config.json
\* cannot be read
setupLoadConfig ==
    IF configOk THEN config
    ELSE [profile |-> DefaultProfile, adminPasswordHash |-> NoHash, settings |-> NoSettings]

\* setup-password.js main(): change is the answer to 'Do you want to change
\* it?', password and confirmPassword the two (trimmed) entries
SetupPassword(change, password, confirmPassword) ==
    LET q == [op |-> "setup-password", password |-> password]
        cfg == setupLoadConfig
    IN  IF ~FalsyHash(cfg.adminPasswordHash) /\ ~change
        THEN Rejected(q, Json(0, "Password unchanged."))
        ELSE IF Len(password) < 6
        THEN Rejected(q, Json(0, "Password must be at least 6 characters long."))
        ELSE IF password # confirmPassword
        THEN Rejected(q, Json(0, "Passwords do not match."))
        ELSE /\ config' = [cfg EXCEPT !.adminPasswordHash = hashSync(password)]
             /\ configOk' = TRUE
             /\ Record(q, Json(0, "Password updated successfully!"))
             /\ UNCHANGED <<links, uploads, now, issued>>

\* config.json becomes unreadable (removed, or caught half written), which
\* loadConfig answers with null
ConfigFault ==
    /\ configOk
    /\ configOk' = FALSE
    /\ Record([op |-> "config.json unreadable"], Json(0, ""))
    /\ UNCHANGED <<links, config, uploads, now, issued>>

\* the clock advances
Tick ==
    /\ now < MaxClock
    /\ now' = now + 1
    /\ UNCHANGED <<stores, issued, req, res, pre>>

-----------------------------------------------------------------------------
(* Inputs *)

\* the password of a POST /api/auth body: absent, '', 0, 7, a string
AuthBodies ==
    {JsUndefined, JsString(<<>>), JsNumber(0), JsNumber(7)}
        \cup {JsString(p) : p \in AdminPasswords \cup {PwWrong, PwDefault}}

\* the tokens a client holds: those POST /api/auth has answered
ClientHeaders == {NoHeader} \cup {Bearer(i.token) : i \in issued}

\* the header of an admin whose password is 'secret': the token POST /api/auth
\* makes of it
AdminHeader == Bearer(MakeToken(PwPlain))

\* the headers of someone who does not know the password: no header,
\* another scheme, the token of a wrong password, a cut token
ForgedHeaders ==
    {NoHeader, BasicHeader, Bearer(MakeToken(PwWrong)),
     Bearer(SubSeq(MakeToken(PwPlain), 1, 7))}

\* bodies of POST /api/links and PUT /api/links/:id
LinkBody(title, url, subtitle, iconName, iconType) ==
    [title |-> title, url |-> url, subtitle |-> subtitle, iconName |-> iconName,
     iconType |-> iconType]

ValidBodies ==
    {LinkBody("GitHub", "https://github.com/x", "code", "github", "brand"),
     LinkBody("Blog", "https://blog.example", undefined, undefined, undefined)}

InvalidBodies ==
    {LinkBody(undefined, "https://github.com/x", "code", "github", "brand"),
     LinkBody("", "https://github.com/x", undefined, undefined, undefined),
     LinkBody("GitHub", undefined, "code", "github", "brand"),
     LinkBody("GitHub", "", undefined, undefined, undefined)}

LinkBodies == ValidBodies \cup InvalidBodies

\* the ids of a route: the string of a clock value, or of a value no link has
RouteIds == {StringId(n) : n \in 1..(MaxClock + 1)}

\* a link of an import file
ImportLink(id, title) ==
    [id |-> id, title |-> title, url |-> "https://old.example", subtitle |-> "",
     iconName |-> "link", iconType |-> "simple", createdAt |-> 1, updatedAt |-> 0]

\* bodies of POST /api/links/bulk: arrays of at most MaxLinks links, among
\* them one with a repeated id, one with an empty title and one with a
\* numeric id; a body whose links is no array; another operation
BulkArrays ==
    {s \in {<<>>,
            <<ImportLink(StringId(1), "Old"), ImportLink(StringId(1), "Older")>>,
            <<ImportLink(StringId(2), "")>>,
            <<ImportLink(NumberId(1), "Old")>>} : Len(s) <= MaxLinks}

BulkBodies ==
    {[operation |-> "replace", links |-> [isArray |-> TRUE, items |-> a]] : a \in BulkArrays}
        \cup {[operation |-> "replace", links |-> [isArray |-> FALSE, items |-> <<>>]],
              [operation |-> "append", links |-> [isArray |-> TRUE, items |-> <<>>]]}

-----------------------------------------------------------------------------
\* no philcard-backup.json has been written
NoFile == [exists |-> FALSE, links |-> [isArray |-> FALSE, items |-> <<>>]]

\* the browser when the page is constructed: this.links = [], nothing
\* rendered, no backup file, no notification. shown is the list of links
\* whose elements the .links container holds, in their order; file is
\* philcard-backup.json; atExport is links.json as it was when the file was
\* written; did is the last thing the admin did in the browser

\* the VPS after the first installation: /home/ubuntu/philcard holds commit 1
\* with its node_modules, PM2 runs it, deploy.sh has not been run
Installed ==
    [pc |-> "idle",
     dir |-> [git |-> TRUE, packageJson |-> TRUE, code |-> 1, modules |-> 1],
     backup |-> [taken |-> FALSE],
     pm2 |-> [listed |-> TRUE, online |-> TRUE, code |-> 1],
     failed |-> {},
     status |-> 0]

\* this.draggedElement = null
NoElement == [set |-> FALSE, index |-> 0]

\* no drop has been handled
NoDrop == [target |-> 0, saved |-> FALSE]

\* this.authToken = null
NoToken == <<>>

\* localStorage.getItem(key) of a key that is not there: null
NoItem == [null |-> TRUE, val |-> <<>>]

\* localStorage.getItem(key) of a key that holds the string s
Item(s) == [null |-> FALSE, val |-> s]

\* !item of what getItem gave: null and '' are falsy
FalsyItem(item) == item.null \/ item.val = <<>>

\* '0' .. '9'
DigitCodes == 48..57

\* n.toString() of a non-negative integer
RECURSIVE toString(_)
toString(n) ==
    IF n < 10 THEN <<48 + n>> ELSE toString(n \div 10) \o <<48 + (n % 10)>>

\* the value of a string of digits
RECURSIVE DigitsValue(_)
DigitsValue(s) ==
    IF s = <<>> THEN 0
    ELSE 10 * DigitsValue(SubSeq(s, 1, Len(s) - 1)) + (s[Len(s)] - 48)

\* parseInt(s): the number its leading digits spell, NaN when it has none
parseInt(s) ==
    LET n == CHOOSE k \in 0..Len(s) :
                 /\ \A i \in 1..k : s[i] \in DigitCodes
                 /\ (k < Len(s) => s[k + 1] \notin DigitCodes)
    IN  IF n = 0 THEN [nan |-> TRUE, val |-> 0]
        ELSE [nan |-> FALSE, val |-> DigitsValue(SubSeq(s, 1, n))]

\* localStorage without 'philcard-auth' and 'philcard-auth-time'
NoStorage == [token |-> NoItem, time |-> NoItem]

NewClient ==
    [links |-> <<>>, shown |-> <<>>, file |-> NoFile, atExport |-> <<>>,
     note |-> "", did |-> "new",
     authToken |-> NoToken, isAuthenticated |-> FALSE, storage |-> NoStorage,
     authModal |-> "none", isDeleting |-> FALSE, deleting |-> <<>>,
     draggable |-> FALSE, isDragging |-> FALSE, draggedElement |-> NoElement,
     reordering |-> <<>>, drop |-> NoDrop]

\* the store's entry of a key it has not seen, which the first request
\* resets; compared holds the clock values at which POST /api/auth called
\* bcrypt.compare
NoClientHits == [totalHits |-> 0, resetTime |-> 0]

NoHits == [api |-> NoClientHits, auth |-> NoClientHits, compared |-> <<>>]

(* The server after start(): initializeData has written an empty           *)
(* links.json; config.json is the default it wrote, the one                *)
(* setup-password.js wrote before the first start, or one written by hand  *)
(* after README's "Profile Settings", which has no adminPasswordHash.      *)

Init ==
    /\ links = <<>>
    /\ \E h \in {DefaultHash, NoHash} \cup {hashSync(p) : p \in AdminPasswords} :
          config = [profile |-> DefaultProfile, adminPasswordHash |-> h,
                    settings |-> NoSettings]
    /\ configOk = TRUE
    /\ uploads = {}
    /\ now = 1
    /\ issued = {}
    /\ req = [op |-> "start"]
    /\ res = Json(0, "")
    /\ pre = [links |-> links, config |-> config, configOk |-> configOk,
              uploads |-> uploads, now |-> now]
    /\ client = NewClient
    /\ flight = {}
    /\ acked = {}
    /\ limit = NoHits
    /\ deploy = Installed

\* the link API as the admin's client uses it
Next ==
    \/ \E body \in LinkBodies : Len(links) < MaxLinks /\ PostLinks(AdminHeader, body)
          /\ UNCHANGED others
    \/ \E id \in RouteIds, body \in LinkBodies : PutLink(AdminHeader, id, body)
          /\ UNCHANGED others
    \/ \E id \in RouteIds : DeleteLink(AdminHeader, id) /\ UNCHANGED others
    \/ \E body \in BulkBodies : BulkLinks(AdminHeader, body) /\ UNCHANGED others
    \/ GetLinks /\ UNCHANGED others
    \/ Tick /\ UNCHANGED others

Spec == Init /\ [][Next]_vars

-----------------------------------------------------------------------------
(* The admin API under forged credentials and under the admin's own *)

AnyHeaders == ForgedHeaders \cup {AdminHeader}

\* a body of PUT /api/profile
ProfileBodies == {[name |-> "Phil", description |-> undefined, avatar |-> ""]}

\* the file of a multipart body: an image
Files ==
    {[present |-> TRUE, mimetype |-> [type |-> "image", subtype |-> "png"],
      random |-> r, ext |-> "png"] : r \in 1..MaxRandom}

\* a body of PUT /api/settings
SettingsBodies ==
    {[settings |-> [defined |-> TRUE, keys |-> {"theme"}, theme |-> "dark",
                    backgroundImageUrl |-> NoUrl]]}

\* a body of POST /api/links and of PUT /api/links/:id
AdminLinkBodies == {LinkBody("GitHub", "https://github.com/x", "code", "github", "brand")}

\* bodies of POST /api/links/bulk: one link, and links that is no array
AdminBulkBodies ==
    {[operation |-> "replace",
      links |-> [isArray |-> TRUE, items |-> <<ImportLink(StringId(1), "Old")>>]],
     [operation |-> "replace", links |-> [isArray |-> FALSE, items |-> <<>>]]}

NextAdmin ==
    \/ \E h \in AnyHeaders, body \in AdminLinkBodies :
          Len(links) < MaxAdminLinks /\ PostLinks(h, body)
          /\ UNCHANGED others
    \/ \E h \in AnyHeaders, body \in AdminLinkBodies : PutLink(h, StringId(1), body)
          /\ UNCHANGED others
    \/ \E h \in AnyHeaders : DeleteLink(h, StringId(1)) /\ UNCHANGED others
    \/ \E h \in AnyHeaders, body \in AdminBulkBodies : BulkLinks(h, body)
          /\ UNCHANGED others
    \/ \E h \in AnyHeaders, body \in ProfileBodies : PutProfile(h, body)
          /\ UNCHANGED others
    \/ \E h \in AnyHeaders, file \in Files : PostAvatar(h, file) /\ UNCHANGED others
    \/ \E h \in AnyHeaders, body \in SettingsBodies : PutSettings(h, body)
          /\ UNCHANGED others
    \/ \E h \in AnyHeaders, file \in Files : PostBackground(h, file) /\ UNCHANGED others
    \/ GetLinks /\ UNCHANGED others
    \/ GetConfig /\ UNCHANGED others
    \/ ConfigFault /\ UNCHANGED others

SpecAdmin == Init /\ [][NextAdmin]_vars

-----------------------------------------------------------------------------
(* Signing in: POST /api/auth, the tokens it issues used on admin endpoints, *)
(* the password changed and config.json lost                                *)

NextLogin ==
    \/ \E password \in AuthBodies : PostAuth(password) /\ UNCHANGED others
    \/ \E h \in ClientHeaders, body \in ValidBodies :
          Len(links) < MaxAdminLinks /\ PostLinks(h, body)
          /\ UNCHANGED others
    \/ \E h \in ClientHeaders : DeleteLink(h, StringId(1)) /\ UNCHANGED others
    \/ \E h \in ClientHeaders, body \in ProfileBodies : PutProfile(h, body)
          /\ UNCHANGED others
    \/ \E change \in BOOLEAN, password, confirmPassword \in AdminPasswords \cup {PwWrong} :
          SetupPassword(change, password, confirmPassword)
          /\ UNCHANGED others
    \/ ConfigFault /\ UNCHANGED others

SpecLogin == Init /\ [][NextLogin]_vars

-----------------------------------------------------------------------------
(* The admin's browser (script.js), signed in with the token of 'secret'.  *)
(* Each action is one method of PhilCard with the request it sends and the *)
(* handling of the response.                                               *)

\* renderLinks(): the container holds one new element per link of
\* this.links, with a drag handle where the page is signed in; an element
\* that was being dragged is no longer in the container (index 0)
renderLinks(c) ==
    [c EXCEPT !.shown = c.links,
              !.draggable = c.isAuthenticated,
              !.draggedElement = IF @.set THEN [set |-> TRUE, index |-> 0] ELSE @]

\* String(link.id)
String(id) == id.v

\* loadLinks(): this.links = await response.json(); renderLinks()
ClientLoadLinks ==
    /\ GetLinks
    /\ client' = renderLinks([client EXCEPT !.links = res'.body, !.did = "load"])

\* saveLink(linkData)
ClientSaveLink(linkData) ==
    /\ PostLinks(AdminHeader, linkData)
    /\ client' =
          IF res'.status = 201
          THEN renderLinks([client EXCEPT !.links = Append(client.links, res'.body),
                                          !.did = "save"])
          ELSE [client EXCEPT !.note = res'.body.error, !.did = "save"]

\* updateLink(id, linkData)
ClientUpdateLink(id, linkData) ==
    /\ PutLink(AdminHeader, id, linkData)
    /\ client' =
          IF res'.status = 200
          THEN LET index == findIndex(client.links, id)
               IN  IF index # 0
                   THEN renderLinks([client EXCEPT !.links[index] = res'.body,
                                                   !.did = "update"])
                   ELSE [client EXCEPT !.did = "update"]
          ELSE [client EXCEPT !.note = res'.body.error, !.did = "update"]

\* this.links.filter(link => String(link.id) !== String(id))
FilterOut(ls, id) == SelectSeq(ls, LAMBDA link : String(link.id) # String(id))

\* deleteLink(id)
ClientDeleteLink(id) ==
    /\ DeleteLink(AdminHeader, id)
    /\ client' =
          IF res'.status = 200
          THEN renderLinks([client EXCEPT !.links = FilterOut(client.links, id),
                                          !.did = "delete"])
          ELSE [client EXCEPT !.note = res'.body.error, !.did = "delete"]

\* JSON.parse(JSON.stringify({links, exported, version}, null, 2)).links: the
\* links are plain objects of strings and numbers, which JSON gives back as
\* they were, in an array
BackupFile(ls) == [exists |-> TRUE, links |-> [isArray |-> TRUE, items |-> ls]]

\* exportData(): the file is written from this.links. The admin keeps one
\* backup, the first
ExportData ==
    /\ ~client.file.exists
    /\ client' = [client EXCEPT !.file = BackupFile(client.links),
                                !.atExport = links,
                                !.note = "Data exported successfully!",
                                !.did = "export"]
    /\ UNCHANGED <<stores, now, issued, req, res, pre>>

\* importData() of the exported file, confirmed: bulkReplaceLinks(data.links),
\* then loadLinks()
ImportData ==
    /\ client.file.exists
    /\ client.file.links.isArray
    /\ BulkLinks(AdminHeader, [operation |-> "replace", links |-> client.file.links])
    /\ client' =
          IF res'.status = 200
          THEN renderLinks([client EXCEPT !.links = links',
                                          !.note = "Data imported successfully!",
                                          !.did = "import"])
          ELSE [client EXCEPT !.note = res'.body.error, !.did = "import"]

\* the route id of PUT /api/links/reorder: the text 'reorder', which is the
\* decimal string of no clock value
ReorderId == StringId(-1)

\* JSON.stringify({ linkIds: newOrder }): a body with no title and no url
ReorderBody(newOrder) ==
    [title |-> undefined, url |-> undefined, subtitle |-> undefined,
     iconName |-> undefined, iconType |-> undefined, linkIds |-> newOrder]

\* performReorder: draggedElement.remove(), then inserted after the target
\* when it came from above it and before the target otherwise: in both cases
\* it ends at the target's index
MoveTo(shown, draggedIndex, targetIndex) ==
    LET rest == [i \in 1..(Len(shown) - 1) |->
                    IF i < draggedIndex THEN shown[i] ELSE shown[i + 1]]
    IN  [i \in 1..Len(shown) |->
            IF i < targetIndex THEN rest[i]
            ELSE IF i = targetIndex THEN shown[draggedIndex]
            ELSE rest[i - 1]]

\* saveNewOrder: Array.from(linkElements).map(data-link-id)
NewOrder(shown) == [i \in 1..Len(shown) |-> String(shown[i].id)]

\* performReorder(draggedElement, dropTarget) and its saveNewOrder(): the
\* request is PUT /api/links/reorder, which the server routes to
\* app.put('/api/links/:id'); on an answer that is not ok with success the
\* page shows the error and loadLinks() fetches and renders links.json
ClientReorder(draggedIndex, targetIndex) ==
    LET dropped == MoveTo(client.shown, draggedIndex, targetIndex)
    IN  /\ draggedIndex # targetIndex
        /\ PutLink(AdminHeader, ReorderId, ReorderBody(NewOrder(dropped)))
        /\ client' =
              IF res'.status = 200 /\ "success" \in DOMAIN res'.body
                 /\ res'.body.success = TRUE
              THEN [client EXCEPT !.links = res'.body.links,
                                  !.shown = dropped,
                                  !.note = "Links reordered successfully!",
                                  !.did = "reorder"]
              ELSE renderLinks([client EXCEPT !.links = links',
                                              !.note = res'.body.error,
                                              !.did = "reorder"])

\* the ids the page offers: those of the elements it shows
ShownIds == {StringId(String(client.shown[i].id)) : i \in 1..Len(client.shown)}

\* the page's methods and drops, a link added from another tab of the admin,
\* a tick
NextClient ==
    \/ ClientLoadLinks /\ UNCHANGED <<flight, acked, limit, deploy>>
    \/ \E linkData \in AdminLinkBodies : Len(links) < MaxLinks /\ ClientSaveLink(linkData)
          /\ UNCHANGED <<flight, acked, limit, deploy>>
    \/ \E id \in ShownIds, linkData \in AdminLinkBodies : ClientUpdateLink(id, linkData)
          /\ UNCHANGED <<flight, acked, limit, deploy>>
    \/ \E id \in ShownIds : ClientDeleteLink(id) /\ UNCHANGED <<flight, acked, limit, deploy>>
    \/ ExportData /\ UNCHANGED <<flight, acked, limit, deploy>>
    \/ ImportData /\ UNCHANGED <<flight, acked, limit, deploy>>
    \/ \E draggedIndex, targetIndex \in 1..Len(client.shown) :
          ClientReorder(draggedIndex, targetIndex) /\ UNCHANGED <<flight, acked, limit, deploy>>
    \/ \E linkData \in AdminLinkBodies :
          Len(links) < MaxLinks /\ PostLinks(AdminHeader, linkData) /\ UNCHANGED others
    \/ Tick /\ UNCHANGED others

SpecClient == Init /\ [][NextClient]_vars

-----------------------------------------------------------------------------
(* Handlers that overlap.  A handler awaits fs.readFile, computes, and     *)
(* awaits fs.writeFile; another request can run between its read and its   *)
(* write.  Read... is the handler up to the point where it holds what it   *)
(* read, Write... the rest, from the computation to the response.          *)

\* a handler in flight: its request and what loadLinks or loadConfig gave it
InFlight(q, read) ==
    [q |-> q, read |-> read,
     n |-> CHOOSE n \in 1..MaxFlight : \A f \in flight : f.n # n]

\* app.post('/api/links') up to 'const links = await loadLinks()'
ReadForPostLinks(authHeader, body) ==
    LET q == [op |-> "POST /api/links", auth |-> authHeader, body |-> body]
        auth == authenticateAdmin(authHeader)
    IN  IF auth.status # 0 THEN Rejected(q, auth) /\ UNCHANGED <<flight, acked>>
        ELSE IF Falsy(body.title) \/ Falsy(body.url)
        THEN /\ Rejected(q, Error(400, "Title and URL are required"))
             /\ UNCHANGED <<flight, acked>>
        ELSE /\ Cardinality(flight) < MaxFlight
             /\ flight' = flight \cup {InFlight(q, loadLinks)}
             /\ UNCHANGED <<stores, now, issued, req, res, pre, acked>>

\* app.post('/api/links') from 'const newLink' on: push, saveLinks, respond
WriteForPostLinks(f) ==
    /\ f.q.op = "POST /api/links"
    /\ LET newLink == NewLink(f.q.body)
       IN  /\ SaveLinks(f.q, Append(f.read, newLink), Json(201, newLink),
                        "Failed to save link")
           /\ acked' = IF res'.status = 201
                       THEN acked \cup {[op |-> f.q.op, link |-> newLink]}
                       ELSE acked
    /\ flight' = flight \ {f}

\* app.put('/api/profile') up to 'const config = await loadConfig()'
ReadForPutProfile(authHeader, body) ==
    LET q == [op |-> "PUT /api/profile", auth |-> authHeader, body |-> body]
        auth == authenticateAdmin(authHeader)
        cfg == loadConfig
    IN  IF auth.status # 0 THEN Rejected(q, auth) /\ UNCHANGED <<flight, acked>>
        ELSE IF cfg.null
        THEN /\ Rejected(q, Error(500, "Failed to load config"))
             /\ UNCHANGED <<flight, acked>>
        ELSE /\ Cardinality(flight) < MaxFlight
             /\ flight' = flight \cup {InFlight(q, cfg.value)}
             /\ UNCHANGED <<stores, now, issued, req, res, pre, acked>>

\* app.put('/api/profile') from 'config.profile = {...}' on
WriteForPutProfile(f) ==
    /\ f.q.op = "PUT /api/profile"
    /\ LET profile ==
               [f.read.profile EXCEPT
                  !.name = OrElse(f.q.body.name, @),
                  !.description = OrElse(f.q.body.description, @),
                  !.avatar = OrElse(f.q.body.avatar, @)]
       IN  /\ SaveConfig(f.q, [f.read EXCEPT !.profile = profile], uploads,
                         Json(200, [success |-> TRUE, profile |-> profile]),
                         "Failed to save profile")
           /\ acked' = IF res'.status = 200
                       THEN acked \cup {[op |-> f.q.op, body |-> f.q.body]}
                       ELSE acked
    /\ flight' = flight \ {f}

\* app.put('/api/settings') up to 'const config = await loadConfig()'
ReadForPutSettings(authHeader, body) ==
    LET q == [op |-> "PUT /api/settings", auth |-> authHeader, body |-> body]
        auth == authenticateAdmin(authHeader)
        cfg == loadConfig
    IN  IF auth.status # 0 THEN Rejected(q, auth) /\ UNCHANGED <<flight, acked>>
        ELSE IF cfg.null
        THEN /\ Rejected(q, Error(500, "Failed to load config"))
             /\ UNCHANGED <<flight, acked>>
        ELSE /\ Cardinality(flight) < MaxFlight
             /\ flight' = flight \cup {InFlight(q, cfg.value)}
             /\ UNCHANGED <<stores, now, issued, req, res, pre, acked>>

\* app.put('/api/settings') from 'config.settings = {...}' on
WriteForPutSettings(f) ==
    /\ f.q.op = "PUT /api/settings"
    /\ LET settings == MergeSettings(f.read.settings, f.q.body.settings)
       IN  /\ SaveConfig(f.q, [f.read EXCEPT !.settings = settings], uploads,
                         Json(200, [success |-> TRUE, settings |-> settings]),
                         "Failed to save settings")
           /\ acked' = IF res'.status = 200
                       THEN acked \cup {[op |-> f.q.op, body |-> f.q.body]}
                       ELSE acked
    /\ flight' = flight \ {f}

\* requests of the admin's client, arriving while others are in flight
NextRace ==
    \/ \E body \in ValidBodies :
          /\ Len(links) < MaxLinks
          /\ ReadForPostLinks(AdminHeader, body)
          /\ UNCHANGED <<client, limit, deploy>>
    \/ \E f \in flight : WriteForPostLinks(f) /\ UNCHANGED <<client, limit, deploy>>
    \/ \E body \in ProfileBodies : ReadForPutProfile(AdminHeader, body) /\ UNCHANGED <<client, limit, deploy>>
    \/ \E f \in flight : WriteForPutProfile(f) /\ UNCHANGED <<client, limit, deploy>>
    \/ \E body \in SettingsBodies : ReadForPutSettings(AdminHeader, body) /\ UNCHANGED <<client, limit, deploy>>
    \/ \E f \in flight : WriteForPutSettings(f) /\ UNCHANGED <<client, limit, deploy>>

SpecRace == Init /\ [][NextRace]_vars

-----------------------------------------------------------------------------
(* Uploads of the signed-in admin: images, a file that is no image, and a  *)
(* form without a file                                                     *)

\* a file whose part says Content-Type: text/html
NoImage ==
    [present |-> TRUE, mimetype |-> [type |-> "text", subtype |-> "html"],
     random |-> 1, ext |-> "png"]

\* a multipart body without a file
NoUpload ==
    [present |-> FALSE, mimetype |-> [type |-> "", subtype |-> ""], random |-> 1, ext |-> ""]

UploadFiles == Files \cup {NoImage, NoUpload}

NextUploads ==
    \/ \E file \in UploadFiles : PostAvatar(AdminHeader, file) /\ UNCHANGED others
    \/ \E file \in UploadFiles : PostBackground(AdminHeader, file) /\ UNCHANGED others
    \/ GetConfig /\ UNCHANGED others
    \/ ConfigFault /\ UNCHANGED others
    \/ Tick /\ UNCHANGED others

SpecUploads == Init /\ [][NextUploads]_vars

-----------------------------------------------------------------------------
(* Avatar uploads that overlap: multer stores the file, the handler awaits *)
(* loadConfig, and another request can run before it unlinks the old file  *)
(* and saves config.json.                                                  *)

\* authenticateAdmin, upload.single('avatar') and app.post('/api/profile/
\* avatar') up to 'const config = await loadConfig()'
StoreAvatar(authHeader, file) ==
    LET q == [op |-> "POST /api/profile/avatar", auth |-> authHeader, file |-> file,
              filename |-> Filename(file)]
        auth == authenticateAdmin(authHeader)
        cfg == loadConfig
    IN  IF auth.status # 0 THEN Rejected(q, auth) /\ UNCHANGED <<flight, acked>>
        ELSE IF ~file.present
        THEN Rejected(q, Error(400, "No file uploaded")) /\ UNCHANGED <<flight, acked>>
        ELSE IF ~fileFilter(file)
        THEN Rejected(q, Error(500, "Internal server error")) /\ UNCHANGED <<flight, acked>>
        ELSE IF cfg.null
        THEN /\ uploads' = uploads \cup {q.filename}
             /\ Record(q, Error(500, "Failed to load config"))
             /\ UNCHANGED <<links, config, configOk, now, issued, flight, acked>>
        ELSE /\ Cardinality(flight) < MaxFlight
             /\ uploads' = uploads \cup {q.filename}
             /\ flight' = flight \cup {InFlight(q, cfg.value)}
             /\ UNCHANGED <<links, config, configOk, now, issued, req, res, pre, acked>>

\* app.post('/api/profile/avatar') from the unlink of the old file on
FinishAvatar(f) ==
    /\ f.q.op = "POST /api/profile/avatar"
    /\ LET old == f.read.profile.avatarUrl
           kept == IF InUploads(old) THEN uploads \ {old.name} ELSE uploads
           profile == [f.read.profile EXCEPT !.avatarUrl = UploadUrl(f.q.filename)]
       IN  SaveConfig(f.q, [f.read EXCEPT !.profile = profile], kept,
                      Json(200, [success |-> TRUE, avatarUrl |-> profile.avatarUrl,
                                 profile |-> profile]),
                      "Failed to save avatar")
    /\ flight' = flight \ {f}
    /\ UNCHANGED acked

NextAvatar ==
    \/ \E file \in Files : StoreAvatar(AdminHeader, file) /\ UNCHANGED <<client, limit, deploy>>
    \/ \E f \in flight : FinishAvatar(f) /\ UNCHANGED <<client, limit, deploy>>
    \/ ConfigFault /\ UNCHANGED others
    \/ Tick /\ UNCHANGED others

SpecAvatar == Init /\ [][NextAvatar]_vars

-----------------------------------------------------------------------------
(* express-rate-limit ^7.1.5 with its MemoryStore, for one IP address.     *)
(* Both limiters have windowMs of 15 minutes, WindowMs clock values here.  *)

\* windowMs: 15 * 60 * 1000
WindowMs == 2

\* limiter: max 100
ApiMax == 100

\* authLimiter: max 5
AuthMax == 5

\* a store that starts its windows but counts nothing in them
increment_Uncounted(c) ==
    [hits |-> 1,
     entry |-> IF c.resetTime <= now
               THEN [totalHits |-> 0, resetTime |-> now + WindowMs]
               ELSE c]

\* MemoryStore.increment(key): an entry whose resetTime has come starts a new
\* window at this request; then totalHits++
increment(c) ==
    LET entry == IF c.resetTime <= now
                 THEN [totalHits |-> 0, resetTime |-> now + WindowMs]
                 ELSE c
    IN  [hits |-> entry.totalHits + 1,
         entry |-> [entry EXCEPT !.totalHits = @ + 1]]

\* the limiter's answer to a request over its max
TooMany == Error(429, "Too many requests, please try again later.")

\* POST /api/auth behind limiter and authLimiter
LimitedPostAuth(password) ==
    LET q == [op |-> "POST /api/auth", password |-> password]
        api == increment(limit.api)
        auth == increment(limit.auth)
        cfg == loadConfig
    IN  /\ api.hits <= ApiMax + MaxBlocked
        /\ auth.hits <= AuthMax + MaxBlocked
        /\ IF api.hits > ApiMax
           THEN /\ Rejected(q, TooMany)
                /\ limit' = [limit EXCEPT !.api = api.entry]
           ELSE IF auth.hits > AuthMax
           THEN /\ Rejected(q, TooMany)
                /\ limit' = [limit EXCEPT !.api = api.entry, !.auth = auth.entry]
           ELSE /\ PostAuth(password)
                /\ limit' =
                      [api |-> api.entry, auth |-> auth.entry,
                       compared |->
                          IF \/ FalsyValue(password)
                             \/ cfg.null
                             \/ FalsyHash(cfg.value.adminPasswordHash)
                          THEN limit.compared
                          ELSE Append(limit.compared, now)]

\* time passes
LimitTick ==
    /\ now < MaxLimitClock
    /\ now' = now + 1
    /\ UNCHANGED <<stores, issued, req, res, pre>>

\* sign-in attempts from one address
LimitBodies == {JsUndefined, JsString(PwWrong), JsString(PwPlain)}

NextLimit ==
    \/ \E password \in LimitBodies :
          LimitedPostAuth(password) /\ UNCHANGED <<client, flight, acked, deploy>>
    \/ LimitTick /\ UNCHANGED others

SpecLimit == Init /\ [][NextLimit]_vars

-----------------------------------------------------------------------------
(* The admin's session in the browser.  The clock steps by 12 hours.       *)

\* maxAge = 24 * 60 * 60 * 1000 ms, in steps of the clock of 12 hours
MaxAge == 2

\* clearAuthentication()
clearAuthentication(c) ==
    [c EXCEPT !.storage = NoStorage, !.authToken = NoToken, !.isAuthenticated = FALSE]

\* a check that takes a token of exactly maxAge
checkAuthentication_AtMost(c) ==
    LET authToken == c.storage.token
        authTime == c.storage.time
    IN  IF ~FalsyItem(authToken) /\ ~FalsyItem(authTime)
        THEN LET parsed == parseInt(authTime.val)
             IN  IF ~parsed.nan /\ now - parsed.val <= MaxAge
                 THEN [c EXCEPT !.authToken = authToken.val,
                                !.isAuthenticated = TRUE]
                 ELSE clearAuthentication(c)
        ELSE c

\* checkAuthentication(): with both entries stored, the token is taken when
\* tokenAge = Date.now() - parseInt(authTime) is less than maxAge, and both
\* are dropped otherwise; NaN < maxAge is false
checkAuthentication(c) ==
    LET authToken == c.storage.token
        authTime == c.storage.time
    IN  IF ~FalsyItem(authToken) /\ ~FalsyItem(authTime)
        THEN LET parsed == parseInt(authTime.val)
             IN  IF ~parsed.nan /\ now - parsed.val < MaxAge
                 THEN [c EXCEPT !.authToken = authToken.val,
                                !.isAuthenticated = TRUE]
                 ELSE clearAuthentication(c)
        ELSE c

\* authenticate(password), from the answer of POST /api/auth on
authenticated(c, response) ==
    IF response.status = 200 /\ response.body.success
    THEN [c EXCEPT !.authToken = response.body.token,
                   !.storage = [token |-> Item(response.body.token),
                                time |-> Item(toString(now))],
                   !.isAuthenticated = TRUE,
                   !.note = "Authentication successful!",
                   !.did = "authenticate"]
    ELSE [c EXCEPT !.note = response.body.error, !.did = "authenticate"]

\* authenticate(password)
ClientAuthenticate(password) ==
    /\ PostAuth(JsString(password))
    /\ client' = authenticated(client, res')

\* showAuthModal(), from the Admin button of a page that is not signed in
ShowAuthModal ==
    /\ ~client.isAuthenticated
    /\ client.authModal = "none"
    /\ client' = [client EXCEPT !.authModal = "flex", !.did = "showAuthModal"]
    /\ UNCHANGED <<stores, now, issued, req, res, pre>>

\* hideAuthModal()
hideAuthModal(c) == [c EXCEPT !.authModal = "none"]

\* the submit handler of authForm: if (this.authenticate(password))
\* this.hideAuthModal(). authenticate is async: the call gives a Promise,
\* which is truthy, so the dialog is hidden at once; the answer of
\* POST /api/auth comes after
SubmitAuthForm(password) ==
    /\ client.authModal = "flex"
    /\ PostAuth(JsString(password))
    /\ client' = [authenticated(hideAuthModal(client), res') EXCEPT !.did = "submit"]

\* the page is opened again: new PhilCard(), init(): checkAuthentication(),
\* loadLinks()
ClientInit ==
    /\ GetLinks
    /\ client' =
          renderLinks(checkAuthentication(
              [client EXCEPT !.links = res'.body, !.authToken = NoToken,
                             !.isAuthenticated = FALSE, !.note = "",
                             !.authModal = "none", !.did = "init"]))

\* the page holds the token its requests carry
SignedIn == client.isAuthenticated /\ Bearer(client.authToken) = AdminHeader

\* a browser that signs in, stays open or is opened again, and adds and
\* deletes links, while time passes
NextSession ==
    \/ ShowAuthModal /\ UNCHANGED <<flight, acked, limit, deploy>>
    \/ \E password \in {PwPlain, PwWrong} : SubmitAuthForm(password)
          /\ UNCHANGED <<flight, acked, limit, deploy>>
    \/ ClientInit /\ UNCHANGED <<flight, acked, limit, deploy>>
    \/ \E linkData \in AdminLinkBodies :
          SignedIn /\ Len(links) < MaxLinks /\ ClientSaveLink(linkData)
          /\ UNCHANGED <<flight, acked, limit, deploy>>
    \/ \E id \in ShownIds : SignedIn /\ ClientDeleteLink(id)
          /\ UNCHANGED <<flight, acked, limit, deploy>>
    \/ LimitTick /\ UNCHANGED others

SpecSession == Init /\ [][NextSession]_vars

-----------------------------------------------------------------------------
(* The session localStorage keeps.  localStorage belongs to the origin:    *)
(* it outlives the page, and other pages of the origin and the user put    *)
(* and remove its items.                                                   *)

\* 'x', a character that is no digit
NoDigit == <<120>>

\* what 'philcard-auth' may hold
StoredTokens == {NoItem, Item(MakeToken(PwPlain))}

\* what 'philcard-auth-time' may hold at some time: nothing, a time that is
\* not later, or a string that is no number
StoredTimes(time) == {NoItem, Item(NoDigit)} \cup {Item(toString(t)) : t \in 0..time}

\* localStorage.setItem / removeItem from outside the page
StorageWritten(authToken, authTime) ==
    /\ client' = [client EXCEPT !.storage = [token |-> authToken, time |-> authTime],
                                !.did = "storage"]
    /\ UNCHANGED <<stores, now, issued, req, res, pre>>

\* a browser that signs in and is opened again as time passes, with
\* whatever localStorage holds by then
NextStored ==
    \/ ShowAuthModal /\ UNCHANGED <<flight, acked, limit, deploy>>
    \/ \E password \in {PwPlain, PwWrong} : SubmitAuthForm(password)
          /\ UNCHANGED <<flight, acked, limit, deploy>>
    \/ \E authToken \in StoredTokens, authTime \in StoredTimes(now) :
          StorageWritten(authToken, authTime)
          /\ UNCHANGED <<flight, acked, limit, deploy>>
    \/ ClientInit /\ UNCHANGED <<flight, acked, limit, deploy>>
    \/ LimitTick /\ UNCHANGED others

SpecStored == Init /\ [][NextStored]_vars

-----------------------------------------------------------------------------
(* deploy.sh.  deploy.pc is the line the script is at, deploy.dir is       *)
(* /home/ubuntu/philcard, deploy.backup the copy this run took,            *)
(* deploy.pm2 what PM2 lists, deploy.failed the steps of this run that     *)
(* failed, deploy.status the exit status of the last run.                  *)

\* set -e: a command that fails outside a condition or a || list ends the
\* script with a non-zero status
ExitOnError(d, step) ==
    [d EXCEPT !.pc = "exit", !.failed = @ \cup {step}, !.status = 1]

\* lines 20-86: the checks pass, cp -r "$APP_DIR" "$BACKUP_PATH", cd, and
\* package.json is created where it is missing.  git and packageJson say
\* what the directory is like when the script is started
DeployBackup(git, packageJson) ==
    /\ deploy.pc \in {"idle", "exit"}
    /\ LET dir == [deploy.dir EXCEPT !.git = git, !.packageJson = packageJson]
       IN  deploy' = [deploy EXCEPT !.pc = "pull",
                                    !.dir = [dir EXCEPT !.packageJson = TRUE],
                                    !.backup = [taken |-> TRUE, dir |-> dir],
                                    !.failed = {},
                                    !.status = 0]
    /\ UNCHANGED <<stores, now, issued, req, res, pre, client, flight, acked, limit>>

\* lines 88-97: git pull origin main 2>/dev/null || { echo ... }: the pull
\* brings the commit origin/main is at, or fails and the script goes on
DeployPull(pulled, commit) ==
    /\ deploy.pc = "pull"
    /\ commit >= deploy.dir.code
    /\ deploy' =
          IF ~deploy.dir.git THEN [deploy EXCEPT !.pc = "install"]
          ELSE IF pulled
          THEN [deploy EXCEPT !.pc = "install", !.dir.code = commit]
          ELSE [deploy EXCEPT !.pc = "install", !.failed = @ \cup {"git pull"}]
    /\ UNCHANGED <<stores, now, issued, req, res, pre, client, flight, acked, limit>>

\* lines 99-102: npm install --omit=dev; a failed install leaves node_modules
\* as far as it got (0)
DeployInstall(installed) ==
    /\ deploy.pc = "install"
    /\ deploy' =
          IF installed
          THEN [deploy EXCEPT !.pc = "restart", !.dir.modules = deploy.dir.code]
          ELSE ExitOnError([deploy EXCEPT !.dir.modules = 0], "npm install")
    /\ UNCHANGED <<stores, now, issued, req, res, pre, client, flight, acked, limit>>

\* lines 104-114: pm2 restart where the app is listed, pm2 start otherwise;
\* the process PM2 starts runs the directory's code and stays up or not
DeployRestart(done, online) ==
    /\ deploy.pc = "restart"
    /\ deploy' =
          IF done
          THEN [deploy EXCEPT !.pc = "check",
                              !.pm2 = [listed |-> TRUE, online |-> online,
                                       code |-> deploy.dir.code]]
          ELSE ExitOnError(deploy, IF deploy.pm2.listed THEN "pm2 restart"
                                   ELSE "pm2 start")
    /\ UNCHANGED <<stores, now, issued, req, res, pre, client, flight, acked, limit>>

\* lines 116-148: the app is online and the script ends with 0, or the
\* rollback: pm2 stop, pm2 delete, rm -rf "$APP_DIR", cp -r "$BACKUP_PATH"
\* "$APP_DIR", pm2 start server.js, exit 1
DeployCheck(started) ==
    /\ deploy.pc = "check"
    /\ deploy' =
          IF deploy.pm2.listed /\ deploy.pm2.online
          THEN [deploy EXCEPT !.pc = "exit", !.status = 0]
          ELSE LET restored ==
                      [deploy EXCEPT !.dir = deploy.backup.dir,
                                     !.pm2 = [listed |-> FALSE, online |-> FALSE,
                                              code |-> 0],
                                     !.failed = @ \cup {"not online"}]
               IN  IF started
                   THEN [restored EXCEPT !.pc = "exit", !.status = 1,
                                         !.pm2 = [listed |-> TRUE, online |-> TRUE,
                                                  code |-> deploy.backup.dir.code]]
                   ELSE ExitOnError(restored, "pm2 start")
    /\ UNCHANGED <<stores, now, issued, req, res, pre, client, flight, acked, limit>>

\* runs of deploy.sh, one after the other
NextDeploy ==
    \/ \E git, packageJson \in BOOLEAN : DeployBackup(git, packageJson)
    \/ \E pulled \in BOOLEAN, commit \in 1..MaxVersion : DeployPull(pulled, commit)
    \/ \E installed \in BOOLEAN : DeployInstall(installed)
    \/ \E done, online \in BOOLEAN : DeployRestart(done, online)
    \/ \E started \in BOOLEAN : DeployCheck(started)

SpecDeploy == Init /\ [][NextDeploy]_vars

-----------------------------------------------------------------------------
(* The profile: PUT /api/profile among the other writers of config.json    *)

\* bodies of PUT /api/profile: each of name, description and avatar absent,
\* empty or a text
ProfileInputs ==
    [name : {undefined, "", "Phil"}, description : {undefined, "", "Maker"},
     avatar : {undefined, "", "PH"}]

NextProfile ==
    \/ \E body \in ProfileInputs : PutProfile(AdminHeader, body) /\ UNCHANGED others
    \/ \E file \in Files : PostAvatar(AdminHeader, file) /\ UNCHANGED others
    \/ \E body \in SettingsBodies : PutSettings(AdminHeader, body) /\ UNCHANGED others
    \/ ConfigFault /\ UNCHANGED others

SpecProfile == Init /\ [][NextProfile]_vars

-----------------------------------------------------------------------------
(* Password changes: setup-password.js and quick-password.js between the   *)
(* sign-ins and the admin requests of clients that keep their tokens       *)

\* main (quick-password.js) with the password as its argument
QuickPassword(password) ==
    LET q == [op |-> "quick-password", password |-> password]
        cfg == setupLoadConfig
    IN  IF Len(password) < 6
        THEN Rejected(q, Json(1, "Password must be at least 6 characters long."))
        ELSE \E saved \in BOOLEAN :
                IF saved
                THEN /\ config' = [cfg EXCEPT !.adminPasswordHash = hashSync(password)]
                     /\ configOk' = TRUE
                     /\ Record(q, Json(0, "Password set successfully!"))
                     /\ UNCHANGED <<links, uploads, now, issued>>
                ELSE Rejected(q, Json(1, "Failed to save configuration."))

\* the passwords of an admin who changes between 'secret' and
\* 'secretphilcard'
ChangedPasswords == {PwPlain, PwSuffixed}

NextPassword ==
    \/ \E password \in ChangedPasswords : SetupPassword(TRUE, password, password)
          /\ UNCHANGED others
    \/ \E password \in ChangedPasswords \cup {PwWrong} : QuickPassword(password)
          /\ UNCHANGED others
    \/ \E password \in ChangedPasswords : PostAuth(JsString(password))
          /\ UNCHANGED others
    \/ \E h \in ClientHeaders, body \in AdminLinkBodies :
          Len(links) < MaxAdminLinks /\ PostLinks(h, body) /\ UNCHANGED others
    \/ \E h \in ClientHeaders : DeleteLink(h, StringId(1)) /\ UNCHANGED others
    \/ \E h \in ClientHeaders, body \in ProfileBodies : PutProfile(h, body)
          /\ UNCHANGED others

SpecPassword == Init /\ [][NextPassword]_vars

-----------------------------------------------------------------------------
(* Deleting from the page.  client.deleting holds the DELETE requests the  *)
(* page has sent and that have not been answered, with the header each was *)
(* sent with; client.isDeleting is this.isDeleting (unset reads as false). *)

\* a guard that lets every call through
Busy_Never(c) == FALSE

\* if (this.isDeleting) return
Busy(c) == c.isDeleting

\* authBtn.onclick of a signed-in page: clearAuthentication(), notification
SignOut ==
    /\ client.isAuthenticated
    /\ client' = [clearAuthentication(client) EXCEPT
                     !.note = "Signed out successfully", !.did = "signOut"]
    /\ UNCHANGED <<stores, now, issued, req, res, pre>>

\* deleteLinkHandler(id) up to the fetch of deleteLink: the call returns when
\* the page is not signed in or a call is under way; after confirm() the
\* DELETE is sent, after a cancel the finally block runs
DeleteLinkHandler(id, confirmed) ==
    /\ client' =
          IF ~client.isAuthenticated
          THEN [client EXCEPT !.note = "Authentication required", !.did = "refused"]
          ELSE IF Busy(client)
          THEN [client EXCEPT !.did = "busy"]
          ELSE IF confirmed
          THEN [client EXCEPT !.isDeleting = TRUE,
                              !.deleting = Append(@, [id |-> id,
                                                      auth |-> Bearer(client.authToken)]),
                              !.did = "sent"]
          ELSE [client EXCEPT !.isDeleting = FALSE, !.did = "cancelled"]
    /\ UNCHANGED <<stores, now, issued, req, res, pre>>

\* the rest of deleteLink and deleteLinkHandler: fetch throws, or the server
\* handles the DELETE and the page takes its answer; the finally block
DeleteAnswered(thrown) ==
    /\ client.deleting # <<>>
    /\ LET sent == Head(client.deleting)
           ended == [client EXCEPT !.deleting = Tail(@), !.isDeleting = FALSE]
       IN  IF thrown
           THEN /\ client' = [ended EXCEPT !.note = "Failed to delete link",
                                           !.did = "thrown"]
                /\ UNCHANGED <<stores, now, issued, req, res, pre>>
           ELSE /\ DeleteLink(sent.auth, sent.id)
                /\ client' =
                      IF res'.status = 200
                      THEN renderLinks([ended EXCEPT
                                           !.links = FilterOut(client.links, sent.id),
                                           !.note = "Link deleted",
                                           !.did = "deleted"])
                      ELSE [ended EXCEPT !.note = res'.body.error, !.did = "failed"]

\* a page whose admin signs in and out, adds links and clicks delete, also
\* while a delete is under way
NextDelete ==
    \/ ShowAuthModal /\ UNCHANGED <<flight, acked, limit, deploy>>
    \/ \E password \in {PwPlain, PwWrong} : SubmitAuthForm(password)
          /\ UNCHANGED <<flight, acked, limit, deploy>>
    \/ SignOut /\ UNCHANGED <<flight, acked, limit, deploy>>
    \/ \E linkData \in AdminLinkBodies :
          SignedIn /\ Len(links) < MaxLinks /\ ClientSaveLink(linkData)
          /\ UNCHANGED <<flight, acked, limit, deploy>>
    \/ \E id \in ShownIds, confirmed \in BOOLEAN : DeleteLinkHandler(id, confirmed)
          /\ UNCHANGED <<flight, acked, limit, deploy>>
    \/ \E thrown \in BOOLEAN : DeleteAnswered(thrown)
          /\ UNCHANGED <<flight, acked, limit, deploy>>
    \/ Tick /\ UNCHANGED others

SpecDelete == Init /\ [][NextDelete]_vars

-----------------------------------------------------------------------------
(* Drag and drop.  client.draggedElement is the element being dragged, by  *)
(* its index in the container (0: not in it); client.reordering holds the  *)
(* reorder requests sent and not yet answered; client.drop is the last     *)
(* drop: the index of its target and whether a request was sent.           *)

\* a check that lets submissions through
Blocked_Never(c) == FALSE

\* if (this.isDragging) return
Blocked(c) == c.isDragging

\* cleanupDragStyles()
cleanupDragStyles(c) == [c EXCEPT !.isDragging = FALSE, !.draggedElement = NoElement]

\* a reorder that puts the dragged item next to the target on its near side
performReorder_Near(shown, draggedIndex, targetIndex) ==
    IF draggedIndex # 0 /\ targetIndex # 0 /\ draggedIndex # targetIndex
    THEN [order |-> MoveTo(shown, draggedIndex,
                           IF draggedIndex < targetIndex THEN targetIndex - 1
                           ELSE targetIndex + 1),
          saved |-> TRUE]
    ELSE [order |-> shown, saved |-> FALSE]

\* performReorder(draggedElement, dropTarget), by the indexOf of each (0 for
\* -1): the new order of the container and whether saveNewOrder() was called
performReorder(shown, draggedIndex, targetIndex) ==
    IF draggedIndex # 0 /\ targetIndex # 0 /\ draggedIndex # targetIndex
    THEN [order |-> MoveTo(shown, draggedIndex, targetIndex), saved |-> TRUE]
    ELSE [order |-> shown, saved |-> FALSE]

\* dragstart on the handle of the element at index
DragStart(index) ==
    /\ client.draggable
    /\ ~client.isDragging
    /\ client' = [client EXCEPT !.isDragging = TRUE,
                                !.draggedElement = [set |-> TRUE, index |-> index],
                                !.did = "dragstart"]
    /\ UNCHANGED <<stores, now, issued, req, res, pre>>

\* handleDrop on the element at targetIndex: performReorder where an element
\* is dragged and it is not the target, saveNewOrder() up to its fetch, then
\* cleanupDragStyles()
HandleDrop(targetIndex) ==
    /\ Len(client.reordering) < MaxReorders
    /\ LET dragged == client.draggedElement
           done == IF dragged.set /\ dragged.index # targetIndex
                   THEN performReorder(client.shown, dragged.index, targetIndex)
                   ELSE [order |-> client.shown, saved |-> FALSE]
           sent == [linkIds |-> NewOrder(done.order),
                    auth |-> Bearer(client.authToken)]
       IN  client' =
              cleanupDragStyles(
                 [client EXCEPT
                     !.shown = done.order,
                     !.reordering = IF done.saved THEN Append(@, sent) ELSE @,
                     !.drop = [target |-> targetIndex, saved |-> done.saved],
                     !.did = "drop"])
    /\ UNCHANGED <<stores, now, issued, req, res, pre>>

\* handleDragEnd
HandleDragEnd ==
    /\ client.isDragging
    /\ client' = [cleanupDragStyles(client) EXCEPT !.did = "dragend"]
    /\ UNCHANGED <<stores, now, issued, req, res, pre>>

\* saveNewOrder() from the answer of its fetch on
ReorderAnswered ==
    /\ client.reordering # <<>>
    /\ LET sent == Head(client.reordering)
           ended == [client EXCEPT !.reordering = Tail(@)]
       IN  /\ PutLink(sent.auth, ReorderId, ReorderBody(sent.linkIds))
           /\ client' =
                 IF res'.status = 200 /\ "success" \in DOMAIN res'.body
                    /\ res'.body.success = TRUE
                 THEN [ended EXCEPT !.links = res'.body.links,
                                    !.note = "Links reordered successfully!",
                                    !.did = "reordered"]
                 ELSE renderLinks([ended EXCEPT !.links = links',
                                                !.note = res'.body.error,
                                                !.did = "reordered"])

\* no link is being edited: form.dataset.editId is not set
NoEdit == StringId(0)

\* the submit handler of addLinkForm, handleFormSubmit() and addLink(): the
\* checks of isDragging and isAuthenticated, then updateLink for a form in
\* edit mode and saveLink, after the check of title and url, otherwise
SubmitLinkForm(editId, linkData) ==
    IF Blocked(client) \/ ~client.isAuthenticated
    THEN /\ client' = [client EXCEPT !.did = "blocked"]
         /\ UNCHANGED <<stores, now, issued, req, res, pre>>
    ELSE IF editId # NoEdit
    THEN ClientUpdateLink(editId, linkData)
    ELSE IF Falsy(linkData.title) \/ Falsy(linkData.url)
    THEN /\ client' = [client EXCEPT !.note = "Please fill in title and URL",
                                     !.did = "invalid"]
         /\ UNCHANGED <<stores, now, issued, req, res, pre>>
    ELSE Len(links) < MaxLinks /\ ClientSaveLink(linkData)

\* the form adds a link, or edits the link with id '2'
EditIds == {NoEdit, StringId(2)}

\* what the admin types into the form
FormInputs ==
    AdminLinkBodies \cup {LinkBody("", "https://github.com/x", "", "link", "simple")}

\* three links of an import
DragLinks ==
    <<ImportLink(StringId(1), "A"), ImportLink(StringId(2), "B"),
      ImportLink(StringId(3), "C")>>

\* a page whose admin signs in, imports links from another tab, reloads, adds
\* and edits links through the form and drags them
NextDrag ==
    \/ ShowAuthModal /\ UNCHANGED <<flight, acked, limit, deploy>>
    \/ SubmitAuthForm(PwPlain) /\ UNCHANGED <<flight, acked, limit, deploy>>
    \/ \E editId \in EditIds, linkData \in FormInputs :
          SubmitLinkForm(editId, linkData) /\ UNCHANGED <<flight, acked, limit, deploy>>
    \/ \E index \in 1..Len(client.shown) : DragStart(index)
          /\ UNCHANGED <<flight, acked, limit, deploy>>
    \/ \E targetIndex \in 1..Len(client.shown) : HandleDrop(targetIndex)
          /\ UNCHANGED <<flight, acked, limit, deploy>>
    \/ HandleDragEnd /\ UNCHANGED <<flight, acked, limit, deploy>>
    \/ ReorderAnswered /\ UNCHANGED <<flight, acked, limit, deploy>>
    \/ BulkLinks(AdminHeader, [operation |-> "replace",
                               links |-> [isArray |-> TRUE, items |-> DragLinks]])
          /\ UNCHANGED others
    \/ ClientInit /\ UNCHANGED <<flight, acked, limit, deploy>>

SpecDrag == Init /\ [][NextDrag]_vars

-----------------------------------------------------------------------------
(* What the claims speak of *)

AdminOps ==
    {"POST /api/links", "PUT /api/links/:id", "DELETE /api/links/:id",
     "POST /api/links/bulk", "PUT /api/profile", "POST /api/profile/avatar",
     "PUT /api/settings", "POST /api/settings/background"}

\* the last request was to an admin endpoint
AdminRequest == req.op \in AdminOps

\* the last request carried 'Authorization: Bearer <token>' with a token that
\* decodes to a password matching the hash config.json held
CarriesPassword ==
    /\ req.auth.scheme = "Bearer"
    /\ bcryptCompare(JsString(TokenPassword(req.auth.token)),
                     pre.config.adminPasswordHash) = "true"

\* the last request left links.json, config.json and uploads as they were
StoresUnchanged ==
    /\ links = pre.links
    /\ config = pre.config
    /\ configOk = pre.configOk
    /\ uploads = pre.uploads

\* the first position of pre.links whose link has the id of the request
FirstWithId ==
    CHOOSE i \in 1..Len(pre.links) :
        /\ pre.links[i].id = req.id
        /\ \A j \in 1..(i - 1) : pre.links[j].id # req.id

-----------------------------------------------------------------------------
(* C1 *)

\* C1 as stated: an admin request without a bearer token of the admin
\* password is answered 401 and changes no file.
C1_Answered401 ==
    (AdminRequest /\ ~CarriesPassword) => (res.status = 401 /\ StoresUnchanged)

\* C1, amended: such a request is answered 401, or 500 when it carries a
\* Bearer header while config.json is unreadable or has no adminPasswordHash;
\* in both cases no file changes.
C1_RejectedUnchanged ==
    (AdminRequest /\ ~CarriesPassword) =>
        /\ res.status =
              IF /\ req.auth.scheme = "Bearer"
                 /\ (~pre.configOk \/ FalsyHash(pre.config.adminPasswordHash))
              THEN 500 ELSE 401
        /\ StoresUnchanged

\* an upload with the token of a wrong password is answered 401 where an
\* admin has already stored a link and an avatar
C1_Witness ==
    /\ req.op = "POST /api/profile/avatar"
    /\ req.auth = Bearer(MakeToken(PwWrong))
    /\ res.status = 401
    /\ pre.links # <<>>
    /\ pre.uploads # {}

-----------------------------------------------------------------------------
(* C2 *)

\* C2: a token POST /api/auth issued is accepted by authenticateAdmin on a
\* later admin request, while config.json is readable and holds the hash it
\* held when the token was issued.
C2_IssuedTokenAccepted ==
    ( /\ AdminRequest
      /\ req.auth.scheme = "Bearer"
      /\ pre.configOk
      /\ [token |-> req.auth.token, hash |-> pre.config.adminPasswordHash] \in issued )
    => res.status # 401

-----------------------------------------------------------------------------
(* C3 *)

\* the password of the last POST /api/auth matches the stored hash
PasswordMatches == bcryptCompare(req.password, pre.config.adminPasswordHash) = "true"

\* config.json was unreadable or had no hash
ConfigBroken == ~pre.configOk \/ FalsyHash(pre.config.adminPasswordHash)

\* the body of the last POST /api/auth had no password, or an empty one
NoPassword == req.password \in {JsUndefined, JsString(<<>>), JsNumber(0)}

\* C3 as stated: 400 for a missing password, else 500 for a broken config,
\* else 401 for a password that does not match, else success with the token;
\* no file changes.
C3_AuthAnswers ==
    req.op = "POST /api/auth" =>
        /\ res.status =
              IF NoPassword THEN 400
              ELSE IF ConfigBroken THEN 500
              ELSE IF ~PasswordMatches THEN 401
              ELSE 200
        /\ StoresUnchanged

\* C3, amended: a password that is present but not a string is answered 500
\* ('Authentication failed'), not 401.
C3_AuthAnswersTyped ==
    req.op = "POST /api/auth" =>
        /\ res.status =
              IF NoPassword THEN 400
              ELSE IF ConfigBroken THEN 500
              ELSE IF req.password.type # "string" THEN 500
              ELSE IF ~PasswordMatches THEN 401
              ELSE 200
        /\ (res.status = 200 =>
              /\ res.body.success
              /\ res.body.token = MakeToken(req.password.val))
        /\ StoresUnchanged

\* the admin password is accepted and its token returned
C3_Witness ==
    /\ req.op = "POST /api/auth"
    /\ req.password = JsString(PwPlain)
    /\ res.status = 200
    /\ res.body.token = MakeToken(PwPlain)

-----------------------------------------------------------------------------
(* C4 *)

\* the hashes and settings a config may hold
SomeHashes == {NoHash, DefaultHash} \cup {hashSync(p) : p \in AdminPasswords}

SomeSettings ==
    {NoSettings,
     [defined |-> TRUE, backgroundImageUrl |-> UploadUrl(<<1, 1, "png">>), theme |-> "dark"]}

\* C4: GET /api/config answers {profile: config.profile} and nothing else; a
\* config that differs only in adminPasswordHash or settings gets the same
\* answer.
C4_PublicConfigOnly ==
    /\ (req.op = "GET /api/config" /\ res.status = 200) =>
          /\ DOMAIN res.body = {"profile"}
          /\ res.body.profile = pre.config.profile
    /\ \A h \in SomeHashes, s \in SomeSettings :
          PublicConfig([config EXCEPT !.adminPasswordHash = h, !.settings = s])
              = PublicConfig(config)

\* GET /api/config is answered where the config holds a password hash and
\* settings
C4_Witness ==
    /\ req.op = "GET /api/config"
    /\ res.status = 200
    /\ pre.config.adminPasswordHash = hashSync(PwPlain)
    /\ pre.config.settings.defined

-----------------------------------------------------------------------------
(* C5 *)

\* C5: an authenticated POST /api/links or PUT /api/links/:id with a missing
\* or empty title or url is answered 400 'Title and URL are required' and
\* leaves links.json as it was.
C5_TitleUrlRequired ==
    ( /\ req.op \in {"POST /api/links", "PUT /api/links/:id"}
      /\ pre.configOk
      /\ CarriesPassword
      /\ (req.body.title \in {undefined, ""} \/ req.body.url \in {undefined, ""}) )
    => /\ res = Error(400, "Title and URL are required")
       /\ links = pre.links

\* an authenticated PUT of an existing link with an empty url is answered 400
C5_Witness ==
    /\ req.op = "PUT /api/links/:id"
    /\ pre.configOk
    /\ CarriesPassword
    /\ req.body.url = ""
    /\ \E i \in 1..Len(pre.links) : pre.links[i].id = req.id
    /\ res.status = 400

-----------------------------------------------------------------------------
(* C6 *)

\* C6: every stored link has a non-empty title and a non-empty url.
C6_StoredTitleUrl ==
    \A i \in 1..Len(links) : ~Falsy(links[i].title) /\ ~Falsy(links[i].url)

-----------------------------------------------------------------------------
(* C7 *)

\* C7: no two stored links have the same id.
C7_UniqueIds ==
    \A i, j \in 1..Len(links) : i # j => links[i].id # links[j].id

-----------------------------------------------------------------------------
(* C8 *)

-----------------------------------------------------------------------------
(* C9 *)

\* C9: a PUT /api/links/:id answered 200 replaces title, url, subtitle,
\* iconName and iconType of the first link with that id and sets its
\* updatedAt; its id, createdAt and position stay, and so does every other
\* link.
C9_PutUpdatesOne ==
    (req.op = "PUT /api/links/:id" /\ res.status = 200) =>
        LET i == FirstWithId
        IN  /\ Len(links) = Len(pre.links)
            /\ \A j \in 1..Len(links) : j # i => links[j] = pre.links[j]
            /\ links[i].id = pre.links[i].id
            /\ links[i].createdAt = pre.links[i].createdAt
            /\ links[i].title = req.body.title
            /\ links[i].url = req.body.url
            /\ links[i].subtitle = OrElse(req.body.subtitle, "")
            /\ links[i].iconName = OrElse(req.body.iconName, "link")
            /\ links[i].iconType = OrElse(req.body.iconType, "simple")
            /\ links[i].updatedAt = pre.now
            /\ res.body = links[i]

\* a link created at an earlier clock value is updated, first of two
C9_Witness ==
    /\ req.op = "PUT /api/links/:id"
    /\ res.status = 200
    /\ Len(pre.links) = 2
    /\ FirstWithId = 1
    /\ pre.links[1].createdAt < pre.now
    /\ pre.links[1].title # req.body.title

-----------------------------------------------------------------------------
(* C10 *)

\* C10: a DELETE /api/links/:id answered 200 removes the first link with
\* that id and no other, answers it as deletedLink, and keeps the others in
\* their order.
C10_DeleteRemovesFirst ==
    (req.op = "DELETE /api/links/:id" /\ res.status = 200) =>
        LET i == FirstWithId
        IN  /\ Len(links) = Len(pre.links) - 1
            /\ \A j \in 1..Len(links) :
                  links[j] = pre.links[IF j < i THEN j ELSE j + 1]
            /\ res.body.deletedLink = pre.links[i]

\* one of two links with the same id is deleted
C10_Witness ==
    /\ req.op = "DELETE /api/links/:id"
    /\ res.status = 200
    /\ Len(pre.links) = 2
    /\ pre.links[1].id = pre.links[2].id
    /\ pre.links[1] # pre.links[2]

-----------------------------------------------------------------------------
(* C11 *)

\* the last request passed authenticateAdmin
Authenticated == CarriesPassword /\ ~ConfigBroken

\* no stored link had the id of the last request (===: a stored number never
\* equals the string of the route)
NoSuchLink == \A i \in 1..Len(pre.links) : pre.links[i].id # req.id

\* the body of the last request had a title and a url
TitleAndUrl == req.body.title \notin {undefined, ""} /\ req.body.url \notin {undefined, ""}

\* C11 as stated: an authenticated PUT or DELETE whose id matches no stored
\* link is answered 404 'Link not found' and leaves the link array as it was.
C11_NotFound404 ==
    ( /\ req.op \in {"PUT /api/links/:id", "DELETE /api/links/:id"}
      /\ Authenticated
      /\ NoSuchLink )
    => /\ res = Error(404, "Link not found")
       /\ links = pre.links

\* C11, amended: the 404 is that of a DELETE, and of a PUT whose body has a
\* title and a url; a PUT without them is answered 400 before the id is
\* looked up. The link array stays as it was in every case.
C11_NotFoundAfterValidation ==
    ( /\ req.op \in {"PUT /api/links/:id", "DELETE /api/links/:id"}
      /\ Authenticated
      /\ NoSuchLink )
    => /\ res = IF req.op = "PUT /api/links/:id" /\ ~TitleAndUrl
                THEN Error(400, "Title and URL are required")
                ELSE Error(404, "Link not found")
       /\ links = pre.links

\* a PUT with a title and a url names an id none of the stored links has
C11_Witness ==
    /\ req.op = "PUT /api/links/:id"
    /\ Authenticated
    /\ TitleAndUrl
    /\ NoSuchLink
    /\ pre.links # <<>>
    /\ res.status = 404

-----------------------------------------------------------------------------
(* C12 *)

\* the last request asked to replace the links by an array
ReplaceByArray == req.body.operation = "replace" /\ req.body.links.isArray

-----------------------------------------------------------------------------
(* C13 *)

\* the admin's last act was an import that the page reported as done
Imported == client.did = "import" /\ client.note = "Data imported successfully!"

\* C13: once the admin has imported the file an earlier export wrote,
\* links.json and the list the page shows are links.json as it was at the
\* export, whatever was added, updated or deleted in between.
C13_ExportImportRestores ==
    Imported => (links = client.atExport /\ client.shown = client.atExport)

-----------------------------------------------------------------------------
(* C14 *)

\* every request has been answered
AllCompleted == flight = {}

\* C14: once every request has been answered, each link answered with 201 is
\* in links.json, and each profile or settings update answered with 200 is
\* in config.json.
C14_NoLostUpdate ==
    AllCompleted =>
        \A a \in acked :
            /\ a.op = "POST /api/links" => \E i \in 1..Len(links) : links[i] = a.link
            /\ a.op = "PUT /api/profile" => config.profile.name = a.body.name
            /\ a.op = "PUT /api/settings" => config.settings.theme = a.body.settings.theme

-----------------------------------------------------------------------------
(* C15 *)

\* how many POST /api/auth reached bcrypt.compare at clock values a..b-1
CompareCount(a, b) ==
    Cardinality({j \in 1..Len(limit.compared) :
                    limit.compared[j] >= a /\ limit.compared[j] < b})

\* the requests authLimiter has counted in the window that is running
UsedInWindow == IF limit.auth.resetTime > now THEN limit.auth.totalHits ELSE 0

\* C15 as stated: in any span of 15 minutes at most 5 POST /api/auth reach
\* the password comparison.
C15_AnyWindow ==
    \A t \in 1..MaxLimitClock : CompareCount(t, t + WindowMs) <= AuthMax

\* C15, amended: the 15 minutes are the limiter's window, which starts at the
\* first request after the previous window ended. In one window at most 5
\* requests reach the comparison; a request that finds 5 counted is answered
\* 429, is not compared and changes nothing; a request that finds fewer is
\* let through; any span of 15 minutes sees at most 10 comparisons.
C15_PerLimiterWindow ==
    /\ [](CompareCount(limit.auth.resetTime - WindowMs, limit.auth.resetTime) <= AuthMax)
    /\ [](\A t \in 1..MaxLimitClock : CompareCount(t, t + WindowMs) <= 2 * AuthMax)
    /\ [][limit'.auth # limit.auth =>
            IF UsedInWindow >= AuthMax
            THEN /\ res' = TooMany
                 /\ limit'.compared = limit.compared
                 /\ stores' = stores
            ELSE res'.status # 429]_vars

\* a sixth sign-in attempt in a window in which five were compared
C15_Witness ==
    /\ req.op = "POST /api/auth"
    /\ res = TooMany
    /\ limit.auth.resetTime > now
    /\ CompareCount(limit.auth.resetTime - WindowMs, limit.auth.resetTime) = AuthMax

-----------------------------------------------------------------------------
(* C16 *)

\* C16: once every avatar upload has been answered, uploads holds no file
\* but the one config.profile.avatarUrl names.
C16_OnlyCurrentAvatar ==
    AllCompleted => \A name \in uploads : config.profile.avatarUrl = UploadUrl(name)

-----------------------------------------------------------------------------
(* C17 *)

\* the last request was an upload of a file whose MIME type does not start
\* with 'image/'
UploadOfNoImage ==
    /\ req.op \in {"POST /api/profile/avatar", "POST /api/settings/background"}
    /\ req.file.present
    /\ req.file.mimetype.type # "image"

\* C17: an authenticated upload of such a file is answered with an error,
\* stores no file, deletes none and leaves config.json as it was.
C17_ImagesOnly ==
    (UploadOfNoImage /\ Authenticated) =>
        /\ res.status >= 400
        /\ uploads = pre.uploads
        /\ config = pre.config
        /\ configOk = pre.configOk

\* a text/html file is sent as background where an avatar and a background
\* are stored
C17_Witness ==
    /\ UploadOfNoImage
    /\ Authenticated
    /\ req.op = "POST /api/settings/background"
    /\ res = Error(500, "Internal server error")
    /\ Cardinality(pre.uploads) = 2
    /\ InUploads(pre.config.profile.avatarUrl)
    /\ InUploads(pre.config.settings.backgroundImageUrl)

-----------------------------------------------------------------------------
(* C18 *)

\* C18: where config.json is the one initializeData wrote, POST /api/auth
\* with the password 'philuu2025' succeeds and answers a token.
C18_DefaultPassword ==
    ( /\ req.op = "POST /api/auth"
      /\ req.password = JsString(PwDefault)
      /\ pre.configOk
      /\ pre.config.adminPasswordHash = DefaultHash )
    => /\ res.status = 200
       /\ res.body.success
       /\ res.body.token = MakeToken(PwDefault)

-----------------------------------------------------------------------------
(* C19 *)

\* the admin's last act was a drop of one link onto another, and the page's
\* request for it has been answered
Dropped ==
    /\ client.did = "reorder"
    /\ req.op = "PUT /api/links/:id"
    /\ req.id = ReorderId

\* C19: once the request of a drop has been answered, links.json holds the
\* links in the order the drop gave them on the screen, and the page shows
\* 'Links reordered successfully!'.
C19_ReorderSaved ==
    Dropped => /\ NewOrder(links) = req.body.linkIds
               /\ client.note = "Links reordered successfully!"

-----------------------------------------------------------------------------
(* C20 *)

\* the last request was to an admin endpoint with the token of the browser's
\* last sign-in, sent more than 24 hours after POST /api/auth issued it
ExpiredTokenRequest ==
    /\ AdminRequest
    /\ ~client.storage.token.null
    /\ ~client.storage.time.null
    /\ req.auth = Bearer(client.storage.token.val)
    /\ pre.now - parseInt(client.storage.time.val).val > ExpiresIn

\* C20: an admin request whose token POST /api/auth issued more than 24
\* hours earlier is answered 401 and changes no file.
C20_TokenExpires ==
    ExpiredTokenRequest => (res.status = 401 /\ StoresUnchanged)

-----------------------------------------------------------------------------
(* C21 *)

\* a run of deploy.sh has ended in which a step after the backup failed
FailedRun == deploy.pc = "exit" /\ deploy.failed # {}

\* C21: when a run of deploy.sh in which a step after the backup failed has
\* ended, the application directory equals the backup of that run, PM2 runs
\* the backed-up version, and the exit status is not 0.
C21_RollsBack ==
    FailedRun => /\ deploy.dir = deploy.backup.dir
                 /\ deploy.pm2.listed
                 /\ deploy.pm2.online
                 /\ deploy.pm2.code = deploy.backup.dir.code
                 /\ deploy.status # 0

-----------------------------------------------------------------------------
(* C22 *)

\* the route of the last request was /api/links/<id> with the id of a link
\* that GET /api/links listed, as the URL spells it
NamesListedLink ==
    \E i \in 1..Len(pre.links) : req.id = StringId(String(pre.links[i].id))

\* C22: an authenticated PUT with a title and a url, or DELETE, on
\* /api/links/<id of a listed link> is not answered 404.
C22_ListedLinkManaged ==
    ( /\ \/ req.op = "PUT /api/links/:id" /\ TitleAndUrl
         \/ req.op = "DELETE /api/links/:id"
      /\ Authenticated
      /\ NamesListedLink )
    => res.status # 404

-----------------------------------------------------------------------------
(* C23 *)

\* the fields PUT /api/profile takes from its body
ProfileKeys == {"name", "description", "avatar"}

\* the body of the last request gave the field, and not as ''
Given(key) == req.body[key] \notin {undefined, ""}

\* C23: after a PUT /api/profile answered 200, each of name, description and
\* avatar is the body's where the body gave it non-empty and the previous one
\* otherwise; the other profile fields, adminPasswordHash, settings, the
\* uploads and links.json are as they were; the answer carries the profile.
C23_ProfileFrame ==
    (req.op = "PUT /api/profile" /\ res.status = 200)
    => /\ \A key \in ProfileKeys :
             config.profile[key] =
                IF Given(key) THEN req.body[key] ELSE pre.config.profile[key]
       /\ DOMAIN config.profile = DOMAIN pre.config.profile
       /\ \A key \in DOMAIN config.profile \ ProfileKeys :
             config.profile[key] = pre.config.profile[key]
       /\ config.adminPasswordHash = pre.config.adminPasswordHash
       /\ config.settings = pre.config.settings
       /\ DOMAIN config = DOMAIN pre.config
       /\ links = pre.links
       /\ uploads = pre.uploads
       /\ res.body = [success |-> TRUE, profile |-> config.profile]

\* a PUT that gave a name, no description and an empty avatar was answered
\* 200 on a config that has an uploaded avatar and settings
C23_Witness ==
    /\ req.op = "PUT /api/profile"
    /\ res.status = 200
    /\ Given("name") /\ req.body.description = undefined /\ req.body.avatar = ""
    /\ config.profile.name # pre.config.profile.name
    /\ InUploads(pre.config.profile.avatarUrl)
    /\ pre.config.settings.defined

-----------------------------------------------------------------------------
(* C24 *)

\* the admin's last act was to submit the sign-in form, and POST /api/auth
\* has answered
FormSubmitted == client.did = "submit" /\ req.op = "POST /api/auth"

\* C24: once a submission of the sign-in form has been answered, the dialog
\* is hidden when the answer was a success and shown otherwise.
C24_DialogClosesOnSuccess ==
    FormSubmitted =>
        (client.authModal = "none" <=> (res.status = 200 /\ res.body.success))

-----------------------------------------------------------------------------
(* C25 *)

\* the last request was to an admin endpoint, with a token POST /api/auth
\* issued for a password other than the one config.json held a hash of when
\* the request came
OldTokenRequest ==
    /\ AdminRequest
    /\ req.auth.scheme = "Bearer"
    /\ pre.configOk
    /\ ~FalsyHash(pre.config.adminPasswordHash)
    /\ \E i \in issued : i.token = req.auth.token
    /\ \A i \in issued :
          i.token = req.auth.token => i.hash.pw # pre.config.adminPasswordHash.pw

\* C25: an admin request with a token issued for a password that has since
\* been replaced by another is answered 401.
C25_ChangeRevokes ==
    OldTokenRequest => res.status = 401

-----------------------------------------------------------------------------
(* C26 *)

\* the url is not under /uploads/, or the file it names is in uploads
Present(url) == InUploads(url) => url.name \in uploads

\* C26: config.json names no file under /uploads/ that is not there: neither
\* as the profile's avatarUrl nor as the settings' backgroundImageUrl.
C26_NoDanglingImage ==
    /\ Present(config.profile.avatarUrl)
    /\ config.settings.defined => Present(config.settings.backgroundImageUrl)

-----------------------------------------------------------------------------
(* C27 *)

\* C27: the page has at most one DELETE request unanswered, and isDeleting
\* is true exactly while it has one: a deleteLinkHandler call made meanwhile
\* sends nothing, and every call that ends leaves isDeleting false.
C27_SingleFlight ==
    /\ Len(client.deleting) <= 1
    /\ client.isDeleting <=> client.deleting # <<>>

\* delete was clicked again while a DELETE was unanswered, and the call
\* returned
C27_Witness ==
    /\ client.did = "busy"
    /\ Len(client.deleting) = 1
    /\ client.isDeleting

-----------------------------------------------------------------------------
(* C28 *)

\* the step was a saveLink or an updateLink of the page, the requests of a
\* form submission
FormRequest == client' # client /\ client'.did \in {"save", "update"}

\* C28: no step taken while a link is dragged sends the request of a form
\* submission, and after a drop or a dragend isDragging is false and
\* draggedElement is null.
C28_NoSubmitWhileDragging ==
    /\ [](client.did \in {"drop", "dragend"} =>
             (~client.isDragging /\ client.draggedElement = NoElement))
    /\ [][client.isDragging => ~FormRequest]_vars

\* the form was submitted while a link was being dragged, and nothing was
\* sent
C28_Witness ==
    /\ client.did = "blocked"
    /\ client.isAuthenticated
    /\ client.isDragging
    /\ client.draggedElement.set

-----------------------------------------------------------------------------
(* C29 *)

\* the list without its element at index
Without(list, index) ==
    [i \in 1..(Len(list) - 1) |-> IF i < index THEN list[i] ELSE list[i + 1]]

\* the step was a drop
DropStep == client' # client /\ client'.did = "drop"

\* the drop was of an element of the list on another element of the list
OnAnother ==
    /\ client.draggedElement.set
    /\ client.draggedElement.index \in 1..Len(client.shown)
    /\ client'.drop.target \in 1..Len(client.shown)
    /\ client.draggedElement.index # client'.drop.target

\* C29: a drop of a listed item on another listed item leaves the same items
\* with the dragged one at the index the target had and the others in their
\* order, and sends the reorder request for that order; any other drop
\* leaves the order as it was and sends nothing.
C29_ReorderIsMove ==
    [][DropStep =>
          IF OnAnother
          THEN /\ Len(client'.shown) = Len(client.shown)
               /\ client'.shown[client'.drop.target] =
                     client.shown[client.draggedElement.index]
               /\ Without(client'.shown, client'.drop.target) =
                     Without(client.shown, client.draggedElement.index)
               /\ client'.drop.saved
               /\ Len(client'.reordering) = Len(client.reordering) + 1
               /\ client'.reordering[Len(client'.reordering)].linkIds =
                     NewOrder(client'.shown)
          ELSE /\ client'.shown = client.shown
               /\ ~client'.drop.saved
               /\ client'.reordering = client.reordering]_vars

\* the first of three links was dropped on the third: it is now the last,
\* the other two moved up
C29_Witness ==
    /\ client.did = "drop"
    /\ client.drop.saved
    /\ client.drop.target = 3
    /\ NewOrder(client.shown) = <<2, 3, 1>>
    /\ NewOrder(links) = <<1, 2, 3>>

-----------------------------------------------------------------------------
(* C30 *)

\* the step was the initialisation of the page
InitStep == client'.did = "init" /\ now' = now

\* both items are in localStorage
BothStored == ~client.storage.token.null /\ ~client.storage.time.null

\* the stored time is a number less than 24 hours before now
LessThanADayOld ==
    /\ ~parseInt(client.storage.time.val).nan
    /\ now - parseInt(client.storage.time.val).val < MaxAge

=============================================================================
